---- MODULE Spec2Model ----
(***************************************************************************)
(* Multi-file document workflow (upload -> OCR -> summary -> QA) of the    *)
(* Document-Processing-Agent: the LangGraph state, its four nodes, the     *)
(* conditional edges and the two entry points of MultiFileDocumentWorkflow.*)
(***************************************************************************)
EXTENDS Integers, Sequences, FiniteSets, TLC

\* ---------------------------------------------------------------- bounds
\* Largest number of (path, name) pairs in one process_documents call.
MaxFiles == 2
\* Largest number of orchestrator calls (process_documents, ask_question)
\* made on one workflow.
MaxCalls == 3
\* Largest number of those calls that are process_documents, each of which
\* starts a new batch.
MaxBatches == 1
\* Latest second the clock reaches.
MaxClock == 1
\* chunks in an index of the query specification
MaxChunks == 3
\* largest top_k asked of retrieve_relevant_chunks in the query specification
MaxTopK == 2
MaxThreads == 2
\* longest text given to clean_text by itself
MaxTextLen == 4
\* largest chunk_size of a TextProcessor taken by itself
MaxChunkSize == 3
\* most chunks given to the context of a question
MaxRetrieved == 3
\* words of the longest text of the batch the longer questions are asked on
AnswerWords == 6

\* ------------------------------------------------------------- constants
\* Config.MAX_FILE_SIZE, in units of 25 MB (50 MB = 2 units).
MAX_FILE_SIZE == 2
\* state["max_chunk_size"] and state["overlap_size"], in characters,
\* scaled from 2000 and 250 so that short texts give several chunks.
max_chunk_size == 4
overlap_size == 1

\* the limit of the context of a question, in characters: scaled from 4000,
\* and longer than the sentence that stands for an empty context.
max_context_length == 40

\* Config.ALLOWED_EXTENSIONS (the members the modelled inputs can hit).
ALLOWED_EXTENSIONS == {".pdf", ".png", ".jpg", ".jpeg", ".tiff", ".docx"}

\* ProcessingStatus
IDLE == "idle"
UPLOADING == "uploading"
UPLOADED == "uploaded"
PROCESSING == "processing"
OCR_COMPLETE == "ocr_complete"
SUMMARIZED == "summarized"
ERROR == "error"

\* ---------------------------------------------------------------- inputs
\* File names the model submits, as path or as display name.
FileNames == {"a.pdf", "b.pdf", "c.txt"}

\* Path(name).suffix.lower()
Suffix(n) == IF n = "c.txt" THEN ".txt" ELSE ".pdf"

\* The (path, name) pairs a caller may submit: path and display name equal,
\* as the interface passes them, and a supported path under a display name
\* of another type.  A sequence may hold the same pair twice.
SubmittedItems ==
  {[path |-> "a.pdf", name |-> "a.pdf"], [path |-> "b.pdf", name |-> "b.pdf"],
   [path |-> "c.txt", name |-> "c.txt"], [path |-> "a.pdf", name |-> "c.txt"]}

\* Sizes path.stat().st_size may report: below, at and above the limit.
FileSizes == {MAX_FILE_SIZE - 1, MAX_FILE_SIZE, MAX_FILE_SIZE + 1}

\* All sequences over S of length at most n.
SeqsUpTo(S, n) == UNION {[1..k -> S] : k \in 0..n}

\* Questions a caller may ask ("" is the falsy question).
Queries == {"", "q"}

\* -------------------------------------------------------- text processing
\* Characters of the modelled texts: a letter, the digit one, a blank,
\* a newline and a character outside clean_text's allow-set.
Letters == {"a", "1"}
Whitespace == {" ", "\n"}

\* \w: the letters of the texts and the letter the fix for "1" writes
IsWordChar(c) == c \in Letters \cup {"I"}
IsSpace(c) == c \in Whitespace
\* [^\w\s.,!?;:()\-'""] : what clean_text replaces by a blank
IsSpecial(c) == ~IsWordChar(c) /\ ~IsSpace(c) /\ c # "."

RECURSIVE CollapseSpaces(_)
\* re.sub(r'\s+', ' ', text)
CollapseSpaces(t) ==
  IF t = <<>> THEN <<>>
  ELSE IF IsSpace(Head(t))
       THEN IF Len(t) > 1 /\ IsSpace(t[2])
            THEN CollapseSpaces(Tail(t))
            ELSE <<" ">> \o CollapseSpaces(Tail(t))
       ELSE <<Head(t)>> \o CollapseSpaces(Tail(t))

\* re.sub(r'[^\w\s.,!?;:()\-\'""]', ' ', text)
ReplaceSpecial(t) == [i \in 1..Len(t) |-> IF IsSpecial(t[i]) THEN " " ELSE t[i]]

\* \b at position i (between t[i-1] and t[i]) for the pattern \b1\b
AtWordBoundary(t, i) ==
  LET before == i > 1 /\ IsWordChar(t[i-1])
      after == i <= Len(t) /\ IsWordChar(t[i])
  IN before # after

\* the fixes without the last one, which collapses the blanks
fix_without_collapsing(t) ==
  [i \in 1..Len(t) |->
     IF t[i] = "1" /\ AtWordBoundary(t, i) /\ AtWordBoundary(t, i + 1)
     THEN "I" ELSE t[i]]

\* _fix_common_ocr_errors: \b0\b -> O, \b1\b -> I, \s+ -> ' '
fix_common_ocr_errors(t) ==
  LET ones == [i \in 1..Len(t) |->
                 IF t[i] = "1" /\ AtWordBoundary(t, i) /\ AtWordBoundary(t, i + 1)
                 THEN "I" ELSE t[i]]
  IN CollapseSpaces(ones)

RECURSIVE LStrip(_)
LStrip(t) == IF t # <<>> /\ IsSpace(Head(t)) THEN LStrip(Tail(t)) ELSE t
RECURSIVE RStrip(_)
RStrip(t) == IF t # <<>> /\ IsSpace(t[Len(t)]) THEN RStrip(SubSeq(t, 1, Len(t) - 1)) ELSE t
\* str.strip()
Strip(t) == RStrip(LStrip(t))

\* TextProcessor.clean_text
clean_text(t) ==
  IF t = <<>> THEN <<>>
  ELSE Strip(fix_common_ocr_errors(ReplaceSpecial(CollapseSpaces(t))))

\* ----------------------------------------------------------------- chunks
\* TextProcessor.text_splitter: RecursiveCharacterTextSplitter with
\* separators ["\n\n", "\n", " ", ""], keep_separator, strip_whitespace.
Separators == << <<"\n", "\n">>, <<"\n">>, <<" ">>, <<>> >>

IsPrefix(p, t) == Len(p) <= Len(t) /\ SubSeq(t, 1, Len(p)) = p

\* re.search(separator, text)
Contains(t, sep) == \E i \in 1..Len(t) : IsPrefix(sep, SubSeq(t, i, Len(t)))

RECURSIVE Flatten(_)
\* "".join(pieces)
Flatten(ps) == IF ps = <<>> THEN <<>> ELSE Head(ps) \o Flatten(Tail(ps))

RECURSIVE ScanSplit(_, _, _, _)
ScanSplit(t, sep, cur, out) ==
  IF t = <<>> THEN Append(out, cur)
  ELSE IF IsPrefix(sep, t)
       THEN ScanSplit(SubSeq(t, Len(sep) + 1, Len(t)), sep, sep, Append(out, cur))
       ELSE ScanSplit(Tail(t), sep, Append(cur, Head(t)), out)

\* _split_text_with_regex(text, separator, keep_separator=True): the
\* separator stays at the start of the piece that follows it; empty
\* pieces are dropped; the empty separator splits into characters.
split_text_with_regex(t, sep) ==
  LET raw == IF sep = <<>> THEN [i \in 1..Len(t) |-> <<t[i]>>]
             ELSE ScanSplit(t, sep, <<>>, <<>>)
  IN SelectSeq(raw, LAMBDA p : p # <<>>)

\* _join_docs: join, strip, None (here the empty text) when nothing is left
join_docs(doc) == Strip(Flatten(doc))

RECURSIVE PopOverlap(_, _, _, _, _)
\* the while loop of _merge_splits: drop leading pieces of current_doc
\* until what is kept fits the overlap and the next piece fits the chunk
PopOverlap(doc, total, dlen, size, overlap) ==
  IF total > overlap \/ (total + dlen > size /\ total > 0)
  THEN PopOverlap(Tail(doc), total - Len(Head(doc)), dlen, size, overlap)
  ELSE <<doc, total>>

RECURSIVE MergeLoop(_, _, _, _, _, _)
MergeLoop(splits, doc, total, docs, size, overlap) ==
  IF splits = <<>>
  THEN IF join_docs(doc) # <<>> THEN Append(docs, join_docs(doc)) ELSE docs
  ELSE LET d == Head(splits)
           full == total + Len(d) > size
           emit == full /\ doc # <<>>
           docs1 == IF emit /\ join_docs(doc) # <<>>
                    THEN Append(docs, join_docs(doc)) ELSE docs
           kept == IF emit THEN PopOverlap(doc, total, Len(d), size, overlap)
                   ELSE <<doc, total>>
       IN MergeLoop(Tail(splits), Append(kept[1], d), kept[2] + Len(d),
                    docs1, size, overlap)

\* _merge_splits(splits, separator="") : pack pieces into chunks
merge_splits(splits, size, overlap) == MergeLoop(splits, <<>>, 0, <<>>, size, overlap)

\* index of the separator _split_text picks: the first one that is empty or
\* occurs in the text
RECURSIVE PickSeparator(_, _, _)
PickSeparator(t, seps, i) ==
  IF i >= Len(seps) \/ seps[i] = <<>> \/ Contains(t, seps[i]) THEN i
  ELSE PickSeparator(t, seps, i + 1)

RECURSIVE split_text_rec(_, _, _, _)
RECURSIVE SplitLoop(_, _, _, _, _, _)
\* the for loop of _split_text over the pieces
SplitLoop(splits, good, final, new_seps, size, overlap) ==
  IF splits = <<>>
  THEN IF good # <<>> THEN final \o merge_splits(good, size, overlap) ELSE final
  ELSE LET s == Head(splits) IN
       IF Len(s) < size
       THEN SplitLoop(Tail(splits), Append(good, s), final, new_seps, size, overlap)
       ELSE LET flushed == IF good # <<>>
                           THEN final \o merge_splits(good, size, overlap)
                           ELSE final
                deeper == IF new_seps = <<>> THEN <<s>>
                          ELSE split_text_rec(s, new_seps, size, overlap)
            IN SplitLoop(Tail(splits), <<>>, flushed \o deeper, new_seps, size, overlap)

\* RecursiveCharacterTextSplitter._split_text
split_text_rec(t, seps, size, overlap) ==
  LET i == PickSeparator(t, seps, 1)
      sep == seps[i]
      new_seps == IF sep = <<>> \/ ~Contains(t, sep) THEN <<>>
                  ELSE SubSeq(seps, i + 1, Len(seps))
  IN SplitLoop(split_text_with_regex(t, sep), <<>>, <<>>, new_seps, size, overlap)

\* TextProcessor.create_chunks: the chunk contents, in order
create_chunks(t, size, overlap) ==
  IF t = <<>> THEN <<>> ELSE split_text_rec(t, Separators, size, overlap)

\* len(chunk.split()): the number of maximal runs of non-blank characters
word_count(t) ==
  Cardinality({i \in 1..Len(t) : ~IsSpace(t[i]) /\ (i = 1 \/ IsSpace(t[i-1]))})

\* the per-chunk dictionaries create_chunks returns
chunk_data(t, size, overlap) ==
  LET cs == create_chunks(t, size, overlap)
  IN [i \in 1..Len(cs) |-> [content |-> cs[i], chunk_id |-> i - 1,
                            word_count |-> word_count(cs[i]),
                            char_count |-> Len(cs[i])]]

\* len(re.findall(r'[.!?]+', text)): the runs of sentence marks
sentence_count(t) ==
  Cardinality({i \in 1..Len(t) : t[i] = "." /\ (i = 1 \/ t[i-1] # ".")})

RECURSIVE paragraph_count(_)
\* len(text.split('\n\n')) if '\n\n' in text else 1
paragraph_count(t) ==
  IF Len(t) < 2 THEN 1
  ELSE IF t[1] = "\n" /\ t[2] = "\n" THEN 1 + paragraph_count(SubSeq(t, 3, Len(t)))
  ELSE paragraph_count(Tail(t))

\* TextProcessor.get_document_metadata
get_document_metadata(t) ==
  IF t = <<>> THEN <<>>
  ELSE [word_count |-> word_count(t),
        character_count |-> Len(t),
        sentence_count |-> sentence_count(t),
        paragraph_count |-> paragraph_count(t),
        estimated_reading_time |-> IF word_count(t) \div 200 > 1
                                   THEN word_count(t) \div 200 ELSE 1]

\* ---------------------------------------------------------------- context
\* f"[From: {chunk['file_name']}]"
source_info(file_name) == <<"[", "F", "r", "o", "m", ":", " ">> \o file_name \o <<"]">>

\* f"{source_info}\n{chunk['content']}"
context_part(chunk) == source_info(chunk.file_name) \o <<"\n">> \o chunk.content

RECURSIVE JoinParts(_)
\* "\n\n".join(context_parts)
JoinParts(parts) ==
  IF parts = <<>> THEN <<>>
  ELSE IF Len(parts) = 1 THEN parts[1]
  ELSE parts[1] \o <<"\n", "\n">> \o JoinParts(Tail(parts))

\* "No specific relevant context found."
NoContextFound ==
  <<"N", "o", " ", "s", "p", "e", "c", "i", "f", "i", "c", " ", "r", "e", "l", "e", "v",
    "a", "n", "t", " ", "c", "o", "n", "t", "e", "x", "t", " ", "f", "o", "u", "n", "d", ".">>

\* "\n\n[Context truncated...]"
TruncationMarker ==
  <<"\n", "\n", "[", "C", "o", "n", "t", "e", "x", "t", " ", "t", "r", "u", "n", "c", "a",
    "t", "e", "d", ".", ".", ".", "]">>

\* a cut that also applies to a context of exactly the limit
limit_context_at_or_above(text) ==
  IF Len(text) >= max_context_length
  THEN SubSeq(text, 1, max_context_length) \o TruncationMarker
  ELSE text

\* lines 136-138: "if len(relevant_context) > 4000"
limit_context(text) ==
  IF Len(text) > max_context_length
  THEN SubSeq(text, 1, max_context_length) \o TruncationMarker
  ELSE text

\* a context without the sentence that stands for no chunks
relevant_context_without_placeholder(relevant_chunks) ==
  limit_context(JoinParts([i \in 1..Len(relevant_chunks) |-> context_part(relevant_chunks[i])]))

\* answer_multi_document_question, lines 128-138: relevant_context as it
\* goes into the prompt
relevant_context(relevant_chunks) ==
  LET context_parts == [i \in 1..Len(relevant_chunks) |->
                          context_part(relevant_chunks[i])]
  IN limit_context(IF context_parts # <<>> THEN JoinParts(context_parts) ELSE NoContextFound)

\* ------------------------------------------------------------- file names
\* FileHandler._generate_safe_filename: re.sub(r'[^\w\-_\.]', '_', name),
\* then the timestamp between stem and extension.
safe_name(n) == n
generate_safe_filename(n, now) == [name |-> safe_name(n), timestamp |-> now]

\* FileHandler._determine_file_type, on the destination path, whose suffix
\* is the display name's
determine_file_type(n) ==
  IF Suffix(n) = ".pdf" THEN "pdf"
  ELSE IF Suffix(n) \in {".png", ".jpg", ".jpeg", ".tiff", ".bmp"} THEN "image"
  ELSE IF Suffix(n) = ".docx" THEN "docx"
  ELSE "unknown"

\* a validate_file that turns away a file of exactly max_size
validate_file_below_limit(exists, size, path, max_size, allowed) ==
  IF ~exists THEN <<FALSE, "File does not exist">>
  ELSE IF size >= max_size THEN <<FALSE, "File size exceeds maximum allowed size">>
  ELSE IF Suffix(path) \notin allowed THEN <<FALSE, "File type not supported">>
  ELSE <<TRUE, "">>

\* FileHandler.validate_file: <<is_valid, error_message>>
validate_file(exists, size, path, max_size, allowed) ==
  IF ~exists THEN <<FALSE, "File does not exist">>
  ELSE IF size > max_size THEN <<FALSE, "File size exceeds maximum allowed size">>
  ELSE IF Suffix(path) \notin allowed THEN <<FALSE, "File type not supported">>
  ELSE <<TRUE, "">>

\* ------------------------------------------------------------------ state
VARIABLES
  state,      \* the MultiFileDocumentState of the current batch
  pc,         \* node or step the running graph invocation is at; "idle" between calls
  idx,        \* position of the for loop of the node being executed
  calls,      \* orchestrator calls made so far
  batches,    \* process_documents calls among them
  call,       \* [kind, ready]: the call being served, and whether the state it
              \* was given had overall_status SUMMARIZED
  is_valid,   \* result of validate_file for the file at idx
  fate,       \* per submitted file the running upload has dealt with, in order:
              \* "rejected" by validate_file, "copy_failed" in
              \* save_uploaded_file, or "admitted"
  extracted,  \* file_id -> what extract_text returned for it in the running
              \* process_all_files_ocr
  next_id,    \* stands for uuid.uuid4(): identifiers handed out so far
  clock,      \* int(time.time())
  uploads,    \* Config.UPLOAD_DIR: destination path -> path it was copied from
  faults,     \* calls that raised inside the running answer_question node
  grounding,  \* the chunks answer_multi_document_question last built its
              \* context from
  scored_on,  \* chunks_with_metadata of the agent of the running or last
              \* ask_question, once it has scored the question
  qa_agent,   \* a MultiFileQAAgent: chunks_with_metadata, and whether
              \* chunk_vectors is set
  retrieved,  \* the retrieve_relevant_chunks call made on qa_agent as it is:
              \* its arguments, what the vectorizer did, and its outcome
  prepared,   \* the prepare_multi_file_index call that made qa_agent: its
              \* argument and whether it raised
  again,      \* the same query put to a second agent whose index was built
              \* from the same chunks
  probe,      \* a call of a function of the core package: its arguments and
              \* what it returned
  ui,         \* a MultiFileDocumentChatInterface: processing and current_state
  handler     \* per thread, where its upload_and_process_files invocation is,
              \* the result process_documents gave it and what it returned

\* the variables of the batch and of the graph run
batch_vars == <<state, pc, idx, calls, batches, call, is_valid, fate, extracted, next_id, clock, uploads, faults, grounding, scored_on>>
\* the variables of an agent taken by itself
agent_vars == <<qa_agent, retrieved, prepared, again>>
vars == <<state, pc, idx, calls, batches, call, is_valid, fate, extracted, next_id, clock, uploads, faults, grounding, scored_on,
          qa_agent, retrieved, prepared, again, probe, ui, handler>>
\* the variables of the interface and of the threads calling its handler
ui_vars == <<ui, handler>>

\* error_message of the batch: which node's handler wrote it, str(e), and
\* for the completion gate the failed_files list
NoMessage == [stage |-> "none", reason |-> "", names |-> <<>>]
Message(stage, reason, names) == [stage |-> stage, reason |-> reason, names |-> names]

\* key of processing_progress that holds the overall percentage; the other
\* keys are file ids (1, 2, ...)
Overall == 0

\* d[k] = v on a dict
DictSet(d, k, v) == [x \in DOMAIN d \cup {k} |-> IF x = k THEN v ELSE d[x]]

\* FileInfo(...) as upload_multiple_files constructs it, __post_init__ applied
\* text_quality_score of a FileInfo no extraction has scored: None
NoScore == -1

FileInfo(file_id, file_name, file_path, file_type) ==
  [file_id |-> file_id, file_name |-> file_name, file_path |-> file_path,
   file_type |-> file_type, processing_status |-> UPLOADED,
   error_message |-> "", raw_text |-> <<>>, processed_text |-> <<>>,
   text_quality_score |-> NoScore,
   document_chunks |-> <<>>, chunk_metadata |-> <<>>, document_metadata |-> <<>>]

\* the dict process_documents starts from: MultiFileDocumentState() is an
\* empty dict, then the two assignments; keys not yet written hold what
\* state.get(key, default) yields
NewState(uploaded_files) ==
  [uploaded_file_paths |-> uploaded_files,
   overall_status |-> IDLE,
   current_step |-> "",
   processing_progress |-> <<>>,
   error_message |-> NoMessage,
   files |-> <<>>,
   file_upload_order |-> <<>>,
   total_files |-> 0,
   files_completed |-> 0,
   combined_text |-> <<>>,
   combined_chunks |-> <<>>,
   combined_summary |-> "",
   suggested_questions |-> "",
   current_query |-> "",
   response |-> "",
   chat_history |-> <<>>,
   relevant_chunks |-> <<>>]

\* MultiFileQAAgent.__init__, lines 62-63: no index yet
NewAgent == [chunks_with_metadata |-> <<>>, chunk_vectors |-> FALSE]

\* no retrieve_relevant_chunks call made yet
NoRetrieval ==
  [asked |-> FALSE, top_k |-> 0, sim |-> <<>>, order |-> <<>>, scoring_ok |-> TRUE,
   outcome |-> [raised |-> FALSE, value |-> <<>>]]

\* no prepare_multi_file_index call made yet
NoPreparation == [called |-> FALSE, combined_chunks |-> <<>>, fit_ok |-> TRUE, raised |-> FALSE]

\* the query not yet put to a second agent
NoSecond ==
  [asked |-> FALSE, fit_ok |-> TRUE, scoring_ok |-> TRUE,
   outcome |-> [raised |-> FALSE, value |-> <<>>]]

\* no function of the core package called yet
NoProbe == [fn |-> "none"]

\* threads of the server that may be inside the upload handler at once
Threads == 1..MaxThreads

\* MultiFileDocumentChatInterface.__init__
NewInterface == [processing |-> FALSE, current_state |-> "none"]

\* a thread that is not inside upload_and_process_files
NotInvoked == [at |-> "idle", result |-> "none", returned |-> ""]

Init ==
  /\ state = NewState(<<>>)
  /\ pc = "idle"
  /\ idx = 0
  /\ calls = 0
  /\ batches = 0
  /\ call = [kind |-> "none", ready |-> FALSE]
  /\ is_valid = FALSE
  /\ fate = <<>>
  /\ extracted = <<>>
  /\ next_id = 1
  /\ clock = 0
  /\ uploads = <<>>
  /\ faults = {}
  /\ grounding = <<>>
  /\ scored_on = <<>>
  /\ qa_agent = NewAgent
  /\ retrieved = NoRetrieval
  /\ prepared = NoPreparation
  /\ again = NoSecond
  /\ probe = NoProbe
  /\ ui = NewInterface
  /\ handler = [t \in Threads |-> NotInvoked]

\* ------------------------------------------------------------ entry points
\* what the graph does when a node returns: the conditional edges
\* ProcessingStatus derives from Enum alone, so a member never compares
\* equal to a str: state.get("overall_status") == "error" is False for
\* every status a node can have written
EnumEqualsStr(status, str) == FALSE

\* MultiFileDocumentWorkflow._decide_after_upload
decide_after_upload(st) ==
  IF st.overall_status = ERROR THEN "error"
  ELSE IF st.overall_status = SUMMARIZED THEN "answer_question"
  ELSE "continue"

\* MultiFileDocumentWorkflow._decide_after_ocr
decide_after_ocr(st) ==
  IF EnumEqualsStr(st.overall_status, "error") THEN "error" ELSE "continue"

\* MultiFileDocumentWorkflow._decide_after_summarization
decide_after_summarization(st) ==
  IF EnumEqualsStr(st.overall_status, "error") THEN "error" ELSE "ready"

\* MultiFileDocumentWorkflow.get_processing_status: the snapshot of a batch;
\* ready_for_qa compares the status with the str "summarized"
get_processing_status(st) ==
  [status |-> st.overall_status,
   step |-> st.current_step,
   progress |-> st.processing_progress,
   error |-> st.error_message,
   ready_for_qa |-> EnumEqualsStr(st.overall_status, "summarized")]

\* the edges _create_workflow adds: node and decision -> next node; END
\* hands the state back to the caller
NextNode(node, decision) ==
  IF node = "upload_files" /\ decision = "continue" THEN "process_ocr"
  ELSE IF node = "upload_files" /\ decision = "answer_question" THEN "answer_question"
  ELSE IF node = "process_ocr" /\ decision = "continue" THEN "generate_summary"
  ELSE "idle"

\* MultiFileDocumentWorkflow.process_documents: a fresh state, then
\* app.invoke from the entry point
ProcessDocuments ==
  /\ pc = "idle"
  /\ calls < MaxCalls
  /\ batches < MaxBatches
  /\ \E ups \in SeqsUpTo(SubmittedItems, MaxFiles) :
       state' = NewState(ups)
  /\ call' = [kind |-> "process_documents", ready |-> FALSE]
  /\ batches' = batches + 1
  /\ pc' = "upload_files"
  /\ idx' = 0
  /\ calls' = calls + 1
  /\ fate' = <<>>
  /\ extracted' = <<>>
  /\ faults' = {}
  /\ grounding' = <<>>
  /\ scored_on' = <<>>
  /\ UNCHANGED <<is_valid, next_id, clock, uploads, agent_vars, probe, ui_vars>>

\* MultiFileDocumentWorkflow.ask_question: stores the question, then
\* app.invoke; the "start" entry of config is not a LangGraph setting, the
\* invocation begins at the graph's entry point upload_files
AskQuestion ==
  /\ pc = "idle"
  /\ calls >= 1
  /\ calls < MaxCalls
  /\ \E q \in Queries : state' = [state EXCEPT !.current_query = q]
  /\ call' = [kind |-> "ask_question", ready |-> state.overall_status = SUMMARIZED]
  /\ batches' = batches
  /\ pc' = "upload_files"
  /\ idx' = 0
  /\ calls' = calls + 1
  /\ faults' = {}
  /\ scored_on' = <<>>
  /\ UNCHANGED <<is_valid, fate, extracted, next_id, clock, uploads, grounding, agent_vars, probe, ui_vars>>

\* ------------------------------------------------------ node upload_files
\* except-handler of upload_multiple_files
UploadFailed(st, reason) ==
  [st EXCEPT !.overall_status = ERROR,
             !.error_message = Message("upload", reason, <<>>)]

\* an upload node without that guard
upload_never_returns_at_once(st) == FALSE

\* the guard at the top of upload_multiple_files: a summarized batch is
\* handed on untouched
upload_returns_at_once(st) == st.overall_status = SUMMARIZED

\* upload_multiple_files up to the for loop
UploadBegin ==
  /\ pc = "upload_files"
  /\ IF upload_returns_at_once(state)
     THEN /\ state' = state
          /\ pc' = NextNode("upload_files", decide_after_upload(state))
          /\ idx' = 0
          /\ UNCHANGED <<fate, extracted>>
     ELSE IF state.uploaded_file_paths = <<>>
     THEN /\ state' = UploadFailed([state EXCEPT !.current_step = "upload"],
                                   "No files provided for upload")
          /\ pc' = NextNode("upload_files", decide_after_upload(state'))
          /\ idx' = 0
          /\ UNCHANGED <<fate, extracted>>
     ELSE /\ state' = [state EXCEPT !.overall_status = UPLOADING,
                                    !.current_step = "upload",
                                    !.total_files = Len(state.uploaded_file_paths),
                                    !.files_completed = 0,
                                    !.files = <<>>,
                                    !.file_upload_order = <<>>]
          /\ pc' = "upload_validate"
          /\ idx' = 1
          /\ fate' = <<>>
          /\ extracted' = <<>>
  /\ UNCHANGED <<calls, batches, call, is_valid, next_id, clock, uploads, faults, grounding, scored_on, agent_vars, probe, ui_vars>>

\* where the upload loop goes after the file at position i
AfterUploadOf(i) ==
  IF i < Len(state.uploaded_file_paths) THEN "upload_validate" ELSE "upload_end"

\* an identifier source that repeats itself
uuid4_repeating(issued) == 1

\* uuid.uuid4(): an identifier no earlier call returned; issued counts the
\* calls made so far
uuid4(issued) == issued

\* a loop that saves the file whatever validate_file said
after_validation_ignored(valid, i) == "upload_save"

\* "if not is_valid: continue": the step that follows validate_file for the
\* file at position i
after_validation(valid, i) == IF valid THEN "upload_save" ELSE AfterUploadOf(i)

\* loop body, first half: uuid4 and validate_file; a rejected file is skipped
UploadValidate ==
  /\ pc = "upload_validate"
  /\ next_id' = next_id + 1
  /\ \E exists \in BOOLEAN, size \in FileSizes :
       LET v == validate_file(exists, size, state.uploaded_file_paths[idx].path,
                              MAX_FILE_SIZE, ALLOWED_EXTENSIONS)
       IN /\ is_valid' = v[1]
          /\ pc' = after_validation(v[1], idx)
          /\ idx' = IF pc' = "upload_save" THEN idx ELSE idx + 1
          /\ fate' = IF pc' = "upload_save" THEN fate ELSE Append(fate, "rejected")
  /\ UNCHANGED <<state, calls, batches, call, extracted, clock, uploads, faults, grounding, scored_on, agent_vars, probe, ui_vars>>

\* loop body, second half: save_uploaded_file and the FileInfo; a failed copy
\* raises and the file is skipped
UploadSave ==
  /\ pc = "upload_save"
  /\ \E copied \in BOOLEAN, now \in {clock, clock + 1} :
       LET item == state.uploaded_file_paths[idx]
           file_id == uuid4(next_id - 1)
           dest == generate_safe_filename(item.name, now)
       IN /\ now <= MaxClock
          /\ clock' = now
          /\ IF copied
             THEN /\ uploads' = DictSet(uploads, dest, item.path)
                  /\ state' = [state EXCEPT
                       !.files = DictSet(@, file_id,
                                   FileInfo(file_id, item.name, dest,
                                            determine_file_type(item.name))),
                       !.file_upload_order = Append(@, file_id)]
                  /\ fate' = Append(fate, "admitted")
             ELSE /\ UNCHANGED <<uploads, state>>
                  /\ fate' = Append(fate, "copy_failed")
  /\ pc' = AfterUploadOf(idx)
  /\ idx' = idx + 1
  /\ is_valid' = FALSE
  /\ UNCHANGED <<calls, batches, call, extracted, next_id, faults, grounding, scored_on, agent_vars, probe, ui_vars>>

\* an upload that fails the batch as soon as one submitted file is missing
upload_result_all_or_nothing(st) ==
  IF Len(st.file_upload_order) # st.total_files
  THEN UploadFailed(st, "No files were successfully uploaded")
  ELSE [st EXCEPT !.overall_status = UPLOADED,
                  !.processing_progress = DictSet(<<>>, Overall, 20)]

\* upload_multiple_files after the for loop: the state it returns
upload_result(st) ==
  IF DOMAIN st.files = {}
  THEN UploadFailed(st, "No files were successfully uploaded")
  ELSE [st EXCEPT !.overall_status = UPLOADED,
                  !.processing_progress = DictSet(<<>>, Overall, 20)]

UploadEnd ==
  /\ pc = "upload_end"
  /\ state' = upload_result(state)
  /\ pc' = NextNode("upload_files", decide_after_upload(state'))
  /\ idx' = 0
  /\ UNCHANGED <<calls, batches, call, is_valid, fate, extracted, next_id, clock, uploads, faults, grounding, scored_on, agent_vars, probe, ui_vars>>

\* ------------------------------------------------------- node process_ocr
\* Raw texts the extraction adapter may return: blank, only a character
\* that clean_text removes, one word, and several words over two lines.
RawTexts ==
  { <<" ">>, <<"#">>, <<"a">>, <<"a", "a", " ", "1", "\n", "a", "a", "a">> }

\* OCREngine._extract_from_pdf, line 76: the confidence, in hundredths, that
\* comes with the text of a PDF
pdf_confidence(full_text) == IF Strip(full_text) # <<>> THEN 100 ELSE 0

\* OCREngine.extract_text either raises or returns a text and a confidence;
\* the files that get as far as a text are PDFs
ExtractOutcomes ==
  {[raised |-> TRUE, text |-> <<>>, confidence |-> 0]}
    \cup {[raised |-> FALSE, text |-> t, confidence |-> pdf_confidence(t)] : t \in RawTexts}

\* extract_text raises ValueError for a file_type other than pdf, image, docx
ExtractOutcomesFor(file_info) ==
  IF file_info.file_type = "unknown"
  THEN {o \in ExtractOutcomes : o.raised}
  ELSE ExtractOutcomes

\* except-handler of process_all_files_ocr
OcrFailed(st, reason, names) ==
  [st EXCEPT !.overall_status = ERROR,
             !.error_message = Message("ocr", reason, names)]

\* process_all_files_ocr up to the for loop
OcrBegin ==
  /\ pc = "process_ocr"
  /\ IF DOMAIN state.files = {}
     THEN /\ state' = OcrFailed([state EXCEPT !.current_step = "ocr"],
                                "No files to process", <<>>)
          /\ pc' = NextNode("process_ocr", decide_after_ocr(state'))
          /\ idx' = 0
     ELSE /\ state' = [state EXCEPT !.overall_status = PROCESSING,
                                    !.current_step = "ocr"]
          /\ pc' = "ocr_file_start"
          /\ idx' = 1
  /\ UNCHANGED <<calls, batches, call, is_valid, fate, extracted, next_id, clock, uploads, faults, grounding, scored_on, agent_vars, probe, ui_vars>>

\* process_single_file, entry: the file at idx of the dict's insertion order
\* (the order of file_upload_order) is marked as being processed
OcrFileStart ==
  /\ pc = "ocr_file_start"
  /\ LET file_id == state.file_upload_order[idx]
     IN state' = [state EXCEPT !.files[file_id].processing_status = PROCESSING]
  /\ pc' = "ocr_file_extract"
  /\ UNCHANGED <<idx, calls, batches, call, is_valid, fate, extracted, next_id, clock, uploads, faults, grounding, scored_on, agent_vars, probe, ui_vars>>

\* a process_single_file that takes a blank text for a text
process_single_file_unchecked(file_info, outcome) ==
  IF outcome.raised
  THEN [file_info EXCEPT !.processing_status = ERROR,
                         !.error_message = "extract_text raised"]
  ELSE LET processed_text == clean_text(outcome.text)
           document_chunks == chunk_data(processed_text, max_chunk_size, overlap_size)
       IN [file_info EXCEPT
             !.raw_text = outcome.text,
             !.processed_text = processed_text,
             !.text_quality_score = outcome.confidence,
             !.document_chunks = [i \in 1..Len(document_chunks) |-> document_chunks[i].content],
             !.chunk_metadata = document_chunks,
             !.document_metadata = get_document_metadata(processed_text),
             !.processing_status = OCR_COMPLETE]

\* process_single_file from extract_text on: the FileInfo it returns
process_single_file(file_info, outcome) ==
  IF outcome.raised
  THEN [file_info EXCEPT !.processing_status = ERROR,
                         !.error_message = "extract_text raised"]
  ELSE IF Strip(outcome.text) = <<>>
  THEN [file_info EXCEPT !.processing_status = ERROR,
                         !.error_message = "No text could be extracted"]
  ELSE LET processed_text == clean_text(outcome.text)
           document_chunks == chunk_data(processed_text, max_chunk_size, overlap_size)
           metadata == get_document_metadata(processed_text)
       IN [file_info EXCEPT
             !.raw_text = outcome.text,
             !.processed_text = processed_text,
             !.text_quality_score = outcome.confidence,
             !.document_chunks = [i \in 1..Len(document_chunks) |-> document_chunks[i].content],
             !.chunk_metadata = document_chunks,
             !.document_metadata = metadata,
             !.processing_status = OCR_COMPLETE]

\* a loop that a failed file ends: the rest of the files is not attempted
after_file_abort(i, total_files, updated) ==
  IF i < total_files /\ updated.processing_status # ERROR THEN "ocr_file_start" ELSE "ocr_gate"

\* a loop that goes to the gate as soon as one file has been processed
after_file_gate_at_once(i, total_files, updated) == "ocr_gate"

\* the for loop of process_all_files_ocr goes on to the next file whatever
\* the file just processed ended as, and to the gate after the last one
after_file(i, total_files, updated) ==
  IF i < total_files THEN "ocr_file_start" ELSE "ocr_gate"

\* the progress with the quotient truncated before it is scaled
ocr_progress_truncated_first(completed_files, total_files) ==
  (completed_files \div total_files) * 60 + 20

\* int((completed_files / total_files) * 60) + 20
ocr_progress(completed_files, total_files) == (completed_files * 60) \div total_files + 20

\* a per-file entry that counts the files done so far
file_progress_counting(updated, completed_files) == completed_files

\* line 176: the per-file entry of processing_progress
file_progress(updated, completed_files) ==
  IF updated.processing_status = OCR_COMPLETE THEN 100 ELSE 0

\* loop body of process_all_files_ocr: process_single_file, then the
\* progress entries
OcrFileExtract ==
  /\ pc = "ocr_file_extract"
  /\ \E outcome \in ExtractOutcomesFor(state.files[state.file_upload_order[idx]]) :
       LET file_id == state.file_upload_order[idx]
           total_files == Cardinality(DOMAIN state.files)
           updated == process_single_file(state.files[file_id], outcome)
           progress == DictSet(state.processing_progress, Overall,
                               ocr_progress(idx, total_files))
       IN /\ state' = [state EXCEPT
                 !.files[file_id] = updated,
                 !.processing_progress =
                    DictSet(progress, file_id, file_progress(updated, idx))]
                  /\ extracted' = DictSet(extracted, file_id, outcome)
          /\ pc' = after_file(idx, total_files, updated)
  /\ idx' = idx + 1
  /\ UNCHANGED <<calls, batches, call, is_valid, fate, next_id, clock, uploads, faults, grounding, scored_on, agent_vars, probe, ui_vars>>

\* state["files"].values() in insertion order
FilesInOrder(st) == [i \in 1..Len(st.file_upload_order) |-> st.files[st.file_upload_order[i]]]

RECURSIVE CombinedTexts(_)
\* "\n\n".join(combined_texts): a header and the text for every file whose
\* processed_text is not empty
CombinedTexts(fs) ==
  IF fs = <<>> THEN <<>>
  ELSE LET f == Head(fs)
           rest == CombinedTexts(Tail(fs))
           part == <<"=== ", f.file_name, " ===\n">> \o f.processed_text
       IN IF f.processed_text = <<>> THEN rest
          ELSE IF rest = <<>> THEN part
          ELSE part \o <<"\n\n">> \o rest

\* the same with the position counted from 1
combined_chunk_from_one(f, i) ==
  [content |-> f.document_chunks[i],
   file_id |-> f.file_id,
   file_name |-> f.file_name,
   file_type |-> f.file_type,
   chunk_index |-> i,
   metadata |-> f.chunk_metadata[i]]

\* the dictionary appended for the i-th chunk (counted from 1) of a file
combined_chunk(f, i) ==
  [content |-> f.document_chunks[i],
   file_id |-> f.file_id,
   file_name |-> f.file_name,
   file_type |-> f.file_type,
   chunk_index |-> i - 1,
   metadata |-> f.chunk_metadata[i]]

RECURSIVE CombinedChunks(_)
\* the chunks of the files, each tagged with its file and its position
CombinedChunks(fs) ==
  IF fs = <<>> THEN <<>>
  ELSE [i \in 1..Len(Head(fs).document_chunks) |-> combined_chunk(Head(fs), i)]
       \o CombinedChunks(Tail(fs))

\* failed_files without its filter: every file is named
failed_file_names_unfiltered(all) == [i \in 1..Len(all) |-> all[i].file_name]

\* failed_files: the names of the files that are not OCR_COMPLETE
failed_file_names(all) ==
  LET failed == SelectSeq(all, LAMBDA f : f.processing_status # OCR_COMPLETE)
  IN [i \in 1..Len(failed) |-> failed[i].file_name]

\* process_all_files_ocr after the for loop: the completion gate, then the
\* combination
OcrGate ==
  /\ pc = "ocr_gate"
  /\ LET all == FilesInOrder(state)
         total_files == Cardinality(DOMAIN state.files)
         successful_files == SelectSeq(all, LAMBDA f : f.processing_status = OCR_COMPLETE)
         failed_files == failed_file_names(all)
     IN state' =
          IF Len(successful_files) # total_files
          THEN OcrFailed(state, "All files must be successfully processed", failed_files)
          ELSE [state EXCEPT
                  !.combined_text = CombinedTexts(successful_files),
                  !.combined_chunks = CombinedChunks(successful_files),
                  !.files_completed = Len(successful_files),
                  !.overall_status = OCR_COMPLETE,
                  !.processing_progress = DictSet(@, Overall, 80)]
  /\ pc' = NextNode("process_ocr", decide_after_ocr(state'))
  /\ idx' = 0
  /\ UNCHANGED <<calls, batches, call, is_valid, fate, extracted, next_id, clock, uploads, faults, grounding, scored_on, agent_vars, probe, ui_vars>>

\* -------------------------------------------------- node generate_summary
\* a handler that records the message and leaves the status as it is
SummaryFailed_keeping_status(st, reason) ==
  [st EXCEPT !.error_message = Message("summarize", reason, <<>>)]

\* except-handler of generate_multi_document_summary
SummaryFailed(st, reason) ==
  [st EXCEPT !.overall_status = ERROR,
             !.error_message = Message("summarize", reason, <<>>)]

\* MultiFileDocumentSummarizer.generate_combined_summary: every exception,
\* the missing combined text included, comes back as an error string
generate_combined_summary(st, llm_ok) ==
  IF st.combined_text = <<>> \/ ~llm_ok THEN "Error generating summary" ELSE "summary"

\* MultiFileDocumentSummarizer.generate_collection_questions: the parsed
\* questions, or the fixed eight when the model call raises
generate_collection_questions(llm_ok) == IF llm_ok THEN "parsed" ELSE "default"

\* a summarize that does not look at the status it is given
summary_precondition_skipped(st) == TRUE

\* generate_multi_document_summary, line 182: the status it requires
summary_precondition(st) == st.overall_status = OCR_COMPLETE

\* generate_multi_document_summary: the state it returns; init_ok,
\* summary_ok and questions_ok tell whether init_chat_model and the two
\* llm.invoke calls return
generate_multi_document_summary(st0, init_ok, summary_ok, questions_ok) ==
  LET st == [st0 EXCEPT !.current_step = "summarize"]
  IN IF ~summary_precondition(st)
     THEN SummaryFailed(st, "OCR processing must be complete before summarization")
     ELSE IF ~init_ok
     THEN SummaryFailed(st, "init_chat_model raised")
     ELSE [st EXCEPT
             !.combined_summary = generate_combined_summary(st, summary_ok),
             !.suggested_questions = generate_collection_questions(questions_ok),
             !.overall_status = SUMMARIZED,
             !.processing_progress = DictSet(@, Overall, 100)]

\* node generate_summary of the graph
GenerateSummary ==
  /\ pc = "generate_summary"
  /\ \E init_ok \in BOOLEAN, summary_ok \in BOOLEAN, questions_ok \in BOOLEAN :
       state' = generate_multi_document_summary(state, init_ok, summary_ok, questions_ok)
  /\ pc' = NextNode("generate_summary", decide_after_summarization(state'))
  /\ idx' = 0
  /\ UNCHANGED <<calls, batches, call, is_valid, fate, extracted, next_id, clock, uploads, faults, grounding, scored_on, agent_vars, probe, ui_vars>>

\* generate_multi_document_summary called by itself, outside the graph, on
\* the state the last call returned
SummarizeDirect ==
  /\ pc = "idle"
  /\ calls < MaxCalls
  /\ \E init_ok \in BOOLEAN, summary_ok \in BOOLEAN, questions_ok \in BOOLEAN :
       state' = generate_multi_document_summary(state, init_ok, summary_ok, questions_ok)
  /\ call' = [kind |-> "summarize", ready |-> state.overall_status = SUMMARIZED]
  /\ calls' = calls + 1
  /\ UNCHANGED <<pc, idx, batches, is_valid, fate, extracted, next_id, clock, uploads, faults, grounding, scored_on, agent_vars, probe, ui_vars>>

\* ---------------------------------------------------- node answer_question
\* cosine similarities in hundredths: none, exactly the threshold, above it
Scores == {0, 10, 60}
\* the minimum similarity of retrieve_relevant_chunks, 0.1, in hundredths
MinSimilarity == 10

NoQuestionResponse == "No question provided."
NotReadyResponse == "Documents are not ready for questions yet. Please wait for processing to complete."
AgentApology == "I apologize, but I encountered an error while processing your question about the document collection"
NodeApology == "I apologize, but I encountered an error while processing your question"

RECURSIVE Argsorts(_, _)
\* np.argsort(similarities): the indices in ascending order of similarity.
\* The default kind, quicksort, is not stable, so indices of equal
\* similarity come in whatever order the build produces: every ascending
\* arrangement of the indices in left
Argsorts(sim, left) ==
  IF left = {} THEN {<<>>}
  ELSE UNION { {<<i>> \o rest : rest \in Argsorts(sim, left \ {i})}
               : i \in {i \in left : \A j \in left : sim[i] <= sim[j]} }

\* sequence[::-1]
Reversed(sequence) == [n \in 1..Len(sequence) |-> sequence[Len(sequence) + 1 - n]]

RECURSIVE SortDescending(_, _)
\* list.sort(key=similarity_score, reverse=True): stable, entries of equal
\* score keep the order they had; scores is the set of scores still to place
SortDescending(entries, scores) ==
  IF scores = {} THEN <<>>
  ELSE LET top == CHOOSE s \in scores : \A t \in scores : t <= s
       IN SelectSeq(entries, LAMBDA e : e.similarity_score = top)
            \o SortDescending(entries, scores \ {top})

\* a retrieval that keeps every one of the top_k chunks, whatever its score
retrieve_without_threshold(chunks, sim, top_k, order) ==
  LET top_indices == SubSeq(Reversed(order), 1, IF top_k < Len(order) THEN top_k ELSE Len(order))
  IN [n \in 1..Len(top_indices) |->
        [chunk |-> chunks[top_indices[n]], position |-> top_indices[n],
         similarity_score |-> sim[top_indices[n]]]]

\* MultiFileQAAgent.retrieve_relevant_chunks on a built index, lines 98-109:
\* sim[i] is the similarity of the query to chunk i, order is what argsort
\* returned; position is the index of the chunk in chunks_with_metadata
retrieve_relevant_chunks(chunks, sim, top_k, order) ==
  LET top_indices == SubSeq(Reversed(order), 1, IF top_k < Len(order) THEN top_k ELSE Len(order))
      kept == SelectSeq(top_indices, LAMBDA i : sim[i] > MinSimilarity)
      relevant_chunks == [n \in 1..Len(kept) |->
                            [chunk |-> chunks[kept[n]], position |-> kept[n],
                             similarity_score |-> sim[kept[n]]]]
  IN SortDescending(relevant_chunks, {sim[i] : i \in 1..Len(chunks)})

\* the similarities a query can have to the chunks: equal for chunks of
\* equal content
Similarities(chunks, scores) ==
  LET contents == {chunks[i].content : i \in 1..Len(chunks)}
  IN {[i \in 1..Len(chunks) |-> score_of[chunks[i].content]] : score_of \in [contents -> scores]}

\* what retrieve_relevant_chunks can return for one question on the index
\* built from chunks
Retrievals(chunks, top_k) ==
  UNION { {retrieve_relevant_chunks(chunks, sim, top_k, order)
             : order \in Argsorts(sim, 1..Len(chunks))}
          : sim \in Similarities(chunks, Scores) }

\* the calls of one question that can raise: init_chat_model in
\* MultiFileQAAgent(), fit_transform in prepare_multi_file_index, transform in
\* retrieve_relevant_chunks, llm.invoke in answer_multi_document_question
RetrievalFaults(chunks) == IF chunks = <<>> THEN {"none"} ELSE {"none", "fit_transform", "transform"}

\* an answer_multi_document_question whose handler returns no text
answer_without_apology(llm_ok) == IF llm_ok THEN "answer" ELSE ""

\* MultiFileQAAgent.answer_multi_document_question: the model's answer, or
\* the apology when the call raises
answer_multi_document_question(llm_ok) == IF llm_ok THEN "answer" ELSE AgentApology

\* a prepare_multi_file_index that leaves the last chunk out of the index
prepare_index_without_last(agent, combined_chunks, fit_ok) ==
  LET indexed == SubSeq(combined_chunks, 1, Len(combined_chunks) - 1)
  IN IF combined_chunks = <<>> THEN agent
     ELSE IF ~fit_ok THEN [agent EXCEPT !.chunks_with_metadata = indexed]
     ELSE [agent EXCEPT !.chunks_with_metadata = indexed, !.chunk_vectors = TRUE]

\* MultiFileQAAgent.prepare_multi_file_index: fit_ok tells whether
\* vectorizer.fit_transform returns
prepare_multi_file_index(agent, combined_chunks, fit_ok) ==
  IF combined_chunks = <<>> THEN agent
  ELSE IF ~fit_ok THEN [agent EXCEPT !.chunks_with_metadata = combined_chunks]
  ELSE [agent EXCEPT !.chunks_with_metadata = combined_chunks, !.chunk_vectors = TRUE]

\* a retrieve_relevant_chunks whose failures reach the caller
retrieve_call_unguarded(agent, sim, scoring_ok, top_k, order) ==
  IF agent.chunks_with_metadata = <<>> \/ ~agent.chunk_vectors
  THEN [raised |-> FALSE, value |-> <<>>]
  ELSE IF ~scoring_ok
  THEN [raised |-> TRUE, value |-> <<>>]
  ELSE [raised |-> FALSE,
        value |-> retrieve_relevant_chunks(agent.chunks_with_metadata, sim, top_k, order)]

\* MultiFileQAAgent.retrieve_relevant_chunks, the whole method: scoring_ok
\* tells whether vectorizer.transform and cosine_similarity return
retrieve_call(agent, sim, scoring_ok, top_k, order) ==
  IF agent.chunks_with_metadata = <<>> \/ ~agent.chunk_vectors
  THEN [raised |-> FALSE, value |-> <<>>]
  ELSE IF ~scoring_ok
  THEN [raised |-> FALSE, value |-> <<>>]
  ELSE [raised |-> FALSE,
        value |-> retrieve_relevant_chunks(agent.chunks_with_metadata, sim, top_k, order)]

\* top_k of the retrieval inside answer_multi_document_question
answer_top_k == 6
\* top_k a retrieve_relevant_chunks call has when none is given
default_top_k == 5

\* process_multi_document_question
AnswerQuestion ==
  /\ pc = "answer_question"
  /\ LET current_query == state.current_query IN
     IF current_query = ""
     THEN /\ state' = [state EXCEPT !.response = NoQuestionResponse]
          /\ faults' = {}
          /\ UNCHANGED <<grounding, scored_on>>
     ELSE IF state.overall_status # SUMMARIZED
     THEN /\ state' = [state EXCEPT !.response = NotReadyResponse]
          /\ faults' = {}
          /\ UNCHANGED <<grounding, scored_on>>
     ELSE \/ \* MultiFileQAAgent() raises
             /\ state' = [state EXCEPT !.response = NodeApology]
             /\ faults' = {"init_chat_model"}
             /\ UNCHANGED <<grounding, scored_on>>
          \/ \E llm_ok \in BOOLEAN, raised \in RetrievalFaults(state.combined_chunks) :
               LET \* line 181 and lines 122-123: a new agent, whose index is
                   \* prepared from the state the node was given
                   agent == prepare_multi_file_index(NewAgent, state.combined_chunks,
                                                     raised # "fit_transform")
                   scoring_ok == raised # "transform"
                   indexed == agent.chunks_with_metadata
               IN \E sim \in Similarities(indexed, Scores) :
                    \E order \in Argsorts(sim, 1..Len(indexed)) :
                      LET answer == answer_multi_document_question(llm_ok)
                          \* line 126, inside answer_multi_document_question
                          for_answer ==
                            retrieve_call(agent, sim, scoring_ok, answer_top_k, order).value
                          \* lines 188 and 209, the same query on the same index
                          relevant_chunks ==
                            retrieve_call(agent, sim, scoring_ok, default_top_k, order).value
                      IN /\ state' = [state EXCEPT
                               !.response = answer,
                               !.relevant_chunks = relevant_chunks,
                               !.chat_history = @ \o <<[role |-> "user", content |-> current_query],
                                                       [role |-> "assistant", content |-> answer]>>]
                         /\ grounding' = for_answer
                         /\ scored_on' = IF agent.chunk_vectors /\ scoring_ok
                                         THEN indexed ELSE <<>>
                         /\ faults' = (IF llm_ok THEN {} ELSE {"llm.invoke"})
                                        \cup ({raised} \ {"none"})
  /\ pc' = NextNode("answer_question", "end")
  /\ idx' = 0
  /\ UNCHANGED <<calls, batches, call, is_valid, fate, extracted, next_id, clock, uploads, agent_vars, probe, ui_vars>>

\* ---------------------------------------------------------- specification
Next ==
  \/ ProcessDocuments
  \/ AskQuestion
  \/ UploadBegin
  \/ UploadValidate
  \/ UploadSave
  \/ UploadEnd
  \/ OcrBegin
  \/ OcrFileStart
  \/ OcrFileExtract
  \/ OcrGate
  \/ GenerateSummary
  \/ AnswerQuestion

Spec == Init /\ [][Next]_vars

\* a step of the graph that app.invoke is executing for process_documents:
\* the node at pc runs on
IngestStep ==
  \/ UploadBegin
  \/ UploadValidate
  \/ UploadSave
  \/ UploadEnd
  \/ OcrBegin
  \/ OcrFileStart
  \/ OcrFileExtract
  \/ OcrGate
  \/ GenerateSummary

\* process_documents alone
NextProcess ==
  \/ ProcessDocuments
  \/ IngestStep

\* app.invoke runs the graph on: the calls inside the nodes return or
\* raise, and a node that can take its next step takes it
SpecProcess == Init /\ [][NextProcess]_vars /\ WF_vars(IngestStep)

\* MultiFileDocumentChatInterface.upload_and_process_files, lines 42-65:
\* what it reports for the state process_documents returned
upload_report(result) ==
  IF result.overall_status = ERROR THEN "Error"
  ELSE IF result.overall_status = SUMMARIZED THEN "Documents processed successfully"
  ELSE "Processing completed but status unclear."

\* ------------------------------- the upload handler called from threads
\* what process_documents returns to the handler: the state of a run that
\* ended summarized or in error
process_documents_results ==
  {[overall_status |-> status] : status \in {SUMMARIZED, ERROR}}

\* upload_and_process_files, lines 24-25: a thread enters the handler; with
\* no files it returns at once
UiInvoke(t) ==
  /\ handler[t].at = "idle"
  /\ \E files_given \in BOOLEAN :
       handler' = [handler EXCEPT ![t] =
                     IF files_given
                       THEN [at |-> "check", result |-> "none", returned |-> ""]
                       ELSE [at |-> "idle", result |-> "none",
                             returned |-> "Please select files to upload."]]
  /\ UNCHANGED <<batch_vars, agent_vars, probe, ui>>

\* lines 27-28: the thread reads self.processing
UiCheck(t) ==
  /\ handler[t].at = "check"
  /\ handler' = [handler EXCEPT ![t] =
                   IF ui.processing
                     THEN [at |-> "idle", result |-> "none",
                           returned |-> "Currently processing other files. Please wait."]
                     ELSE [@ EXCEPT !.at = "set"]]
  /\ UNCHANGED <<batch_vars, agent_vars, probe, ui>>

\* line 30: the thread writes self.processing = True and calls
\* process_documents
UiSet(t) ==
  /\ handler[t].at = "set"
  /\ ui' = [ui EXCEPT !.processing = TRUE]
  /\ handler' = [handler EXCEPT ![t].at = "run"]
  /\ UNCHANGED <<batch_vars, agent_vars, probe>>

\* lines 37-40: process_documents returns to the thread, which stores the
\* result in self.current_state
UiProcess(t) ==
  /\ handler[t].at = "run"
  /\ \E result \in process_documents_results :
       /\ ui' = [ui EXCEPT !.current_state = result.overall_status]
       /\ handler' = [handler EXCEPT ![t] = [@ EXCEPT !.at = "report",
                                                      !.result = result.overall_status]]
  /\ UNCHANGED <<batch_vars, agent_vars, probe>>

\* lines 42-65: the thread writes self.processing = False and returns what
\* it reports for the result
UiReport(t) ==
  /\ handler[t].at = "report"
  /\ ui' = [ui EXCEPT !.processing = FALSE]
  /\ handler' = [handler EXCEPT ![t] =
                   [at |-> "idle", result |-> "none",
                    returned |-> upload_report([overall_status |-> handler[t].result])]]
  /\ UNCHANGED <<batch_vars, agent_vars, probe>>

\* the threads of the server calling the handler of one interface
NextUpload ==
  \/ \E t \in Threads : UiInvoke(t)
  \/ \E t \in Threads : UiCheck(t)
  \/ \E t \in Threads : UiSet(t)
  \/ \E t \in Threads : UiProcess(t)
  \/ \E t \in Threads : UiReport(t)

SpecUpload == Init /\ [][NextUpload]_vars

\* ------------------------------------------- MultiFileQAAgent on its own
\* chunk contents of the indexes of the query specification
Contents == {<<"a">>, <<"b">>, <<"c">>}

\* similarities in the query specification: a second value above the minimum
QueryScores == Scores \cup {30}

\* combined_chunks of up to MaxChunks chunks
Corpora ==
  UNION { {[i \in 1..n |-> [content |-> contents[i], file_id |-> 1, file_name |-> "a.pdf",
                             file_type |-> "pdf", chunk_index |-> i - 1]]
             : contents \in [1..n -> Contents]}
          : n \in 0..MaxChunks }

\* prepare_multi_file_index lets no exception out: with no chunks it logs a
\* warning and returns at line 71, and whatever fit_transform raises is
\* caught and logged at lines 82-83
prepare_raises(combined_chunks, fit_ok) == FALSE

\* answer_multi_document_question, lines 122-123: the index is prepared
\* while the agent has no chunks
PrepareIndex ==
  /\ qa_agent.chunks_with_metadata = <<>>
  /\ \E combined_chunks \in Corpora, fit_ok \in BOOLEAN :
       /\ qa_agent' = prepare_multi_file_index(qa_agent, combined_chunks, fit_ok)
       /\ prepared' = [called |-> TRUE, combined_chunks |-> combined_chunks, fit_ok |-> fit_ok,
                       raised |-> prepare_raises(combined_chunks, fit_ok)]
  /\ retrieved' = NoRetrieval
  /\ again' = NoSecond
  /\ UNCHANGED <<batch_vars, probe, ui_vars>>

\* one call of retrieve_relevant_chunks(query, top_k) on the agent. A call
\* leaves the agent as it was, so a further call on the same agent reaches
\* nothing a first call does not: one call is followed per state of the agent
RetrieveRelevantChunks ==
  /\ ~retrieved.asked
  /\ \E top_k \in 1..MaxTopK, scoring_ok \in BOOLEAN :
       \E sim \in Similarities(qa_agent.chunks_with_metadata, QueryScores) :
         \E order \in Argsorts(sim, 1..Len(qa_agent.chunks_with_metadata)) :
           retrieved' = [asked |-> TRUE, top_k |-> top_k, sim |-> sim, order |-> order,
                         scoring_ok |-> scoring_ok,
                         outcome |-> retrieve_call(qa_agent, sim, scoring_ok, top_k, order)]
  /\ UNCHANGED <<batch_vars, qa_agent, prepared, again, probe, ui_vars>>

\* an argsort that arranges equal similarities differently on a second call
argsort_differently(sim, order_before) ==
  IF \E o \in Argsorts(sim, 1..Len(sim)) : o # order_before
  THEN CHOOSE o \in Argsorts(sim, 1..Len(sim)) : o # order_before
  ELSE order_before

\* np.argsort(similarities) called a second time in the same process: the
\* sort is a function of the array it is given, so on the same similarities
\* it returns the indices in the order it returned before
argsort_again(sim, order_before) == order_before

\* a second MultiFileQAAgent whose index is prepared from the same
\* combined_chunks, then the same retrieve_relevant_chunks(query, top_k).
\* fit_transform and transform compute their vectors from the chunk contents
\* and the query alone, so the similarities are those of the first agent
RetrieveOnSecondIndex ==
  /\ retrieved.asked
  /\ ~again.asked
  /\ \E fit_ok \in BOOLEAN, scoring_ok \in BOOLEAN :
       LET second == prepare_multi_file_index(NewAgent, prepared.combined_chunks, fit_ok)
           order == argsort_again(retrieved.sim, retrieved.order)
       IN again' = [asked |-> TRUE, fit_ok |-> fit_ok, scoring_ok |-> scoring_ok,
                    outcome |-> retrieve_call(second, retrieved.sim, scoring_ok,
                                              retrieved.top_k, order)]
  /\ UNCHANGED <<batch_vars, qa_agent, retrieved, prepared, probe, ui_vars>>

NextQuery ==
  \/ PrepareIndex
  \/ RetrieveRelevantChunks
  \/ RetrieveOnSecondIndex

SpecQuery == Init /\ [][NextQuery]_vars

\* ------------------------------------------ functions of the core package
\* characters of the texts given to clean_text and create_chunks
ProbeChars == Letters \cup Whitespace \cup {"#", "."}

\* TextProcessor.clean_text on a text, and again on what it returned
ProbeCleanText ==
  /\ probe.fn = "none"
  /\ \E text \in SeqsUpTo(ProbeChars, MaxTextLen) :
       probe' = [fn |-> "clean_text", text |-> text,
                 once |-> clean_text(text),
                 twice |-> clean_text(clean_text(text))]
  /\ UNCHANGED <<batch_vars, agent_vars, ui_vars>>

\* TextProcessor(chunk_size, chunk_overlap).create_chunks on a text that
\* clean_text returned
ProbeCreateChunks ==
  /\ probe.fn = "none"
  /\ \E raw \in SeqsUpTo(ProbeChars, MaxTextLen), chunk_size \in 1..MaxChunkSize :
       \E chunk_overlap \in 0..(chunk_size - 1) :
         LET text == clean_text(raw)
         IN probe' = [fn |-> "create_chunks", text |-> text,
                      chunk_size |-> chunk_size, chunk_overlap |-> chunk_overlap,
                      chunks |-> create_chunks(text, chunk_size, chunk_overlap)]
  /\ UNCHANGED <<batch_vars, agent_vars, ui_vars>>

\* paths given to validate_file: the submitted names and one whose extension
\* is in capitals
ProbePaths == FileNames \cup {"A.PDF"}
\* allow-sets given to validate_file
ProbeAllowed == {ALLOWED_EXTENSIONS, {".txt"}, {}}

\* FileHandler.validate_file
ProbeValidateFile ==
  /\ probe.fn = "none"
  /\ \E exists \in BOOLEAN, size \in 0..(MAX_FILE_SIZE + 1), path \in ProbePaths,
        max_size \in 1..MAX_FILE_SIZE, allowed \in ProbeAllowed :
       probe' = [fn |-> "validate_file", exists |-> exists, size |-> size, path |-> path,
                 max_size |-> max_size, allowed |-> allowed,
                 result |-> validate_file(exists, size, path, max_size, allowed)]
  /\ UNCHANGED <<batch_vars, agent_vars, ui_vars>>

\* chunks retrieve_relevant_chunks may hand to the context: a file name and
\* a content of one to three characters
ContextChunks ==
  {[file_name |-> n, content |-> c] :
     n \in {<<"f">>, <<"g">>}, c \in {<<"a">>, <<"a", "b">>, <<"a", "b", "a">>}}

\* answer_multi_document_question, lines 128-138: the context of the prompt
ProbeRelevantContext ==
  /\ probe.fn = "none"
  /\ \E relevant_chunks \in SeqsUpTo(ContextChunks, MaxRetrieved) :
       probe' = [fn |-> "relevant_context", relevant_chunks |-> relevant_chunks,
                 context |-> relevant_context(relevant_chunks)]
  /\ UNCHANGED <<batch_vars, agent_vars, ui_vars>>

NextPure ==
  \/ ProbeCleanText
  \/ ProbeCreateChunks
  \/ ProbeValidateFile
  \/ ProbeRelevantContext

SpecPure == Init /\ [][NextPure]_vars

\* ------------------------------------------- questions on a longer batch
\* texts of AnswerWords and AnswerWords - 1 words of two letters, every
\* second one "a1": create_chunks makes one chunk of each word
RECURSIVE WordsText(_)
WordsText(n) ==
  IF n = 0 THEN <<>>
  ELSE LET word == IF n % 2 = 0 THEN <<"a", "1">> ELSE <<"a", "a">>
       IN IF n = 1 THEN word ELSE WordsText(n - 1) \o <<" ">> \o word
AnswerTexts == {WordsText(AnswerWords - 1), WordsText(AnswerWords)}

\* what process_documents returns for the one PDF a.pdf whose extraction
\* gives raw, when the file is valid, the copy is made in second 0 and every
\* model call returns: the nodes upload_files, process_ocr and
\* generate_summary one after the other
ProcessedBatch(raw) ==
  LET item == [path |-> "a.pdf", name |-> "a.pdf"]
      file_id == uuid4(1)
      outcome == [raised |-> FALSE, text |-> raw, confidence |-> pdf_confidence(raw)]
      begun == [NewState(<<item>>) EXCEPT !.overall_status = UPLOADING,
                                          !.current_step = "upload",
                                          !.total_files = 1]
      saved == [begun EXCEPT
                  !.files = DictSet(@, file_id,
                              FileInfo(file_id, item.name, generate_safe_filename(item.name, 0),
                                       determine_file_type(item.name))),
                  !.file_upload_order = Append(@, file_id)]
      uploaded == upload_result(saved)
      updated == process_single_file(
                   [uploaded.files[file_id] EXCEPT !.processing_status = PROCESSING], outcome)
      processed == [uploaded EXCEPT
                      !.overall_status = PROCESSING,
                      !.current_step = "ocr",
                      !.files[file_id] = updated,
                      !.processing_progress =
                         DictSet(DictSet(@, Overall, ocr_progress(1, 1)), file_id, 100)]
      combined == [processed EXCEPT
                     !.combined_text = CombinedTexts(FilesInOrder(processed)),
                     !.combined_chunks = CombinedChunks(FilesInOrder(processed)),
                     !.files_completed = 1,
                     !.overall_status = OCR_COMPLETE,
                     !.processing_progress = DictSet(@, Overall, 80)]
  IN generate_multi_document_summary(combined, TRUE, TRUE, TRUE)

\* the orchestrator after process_documents has returned such a batch, with
\* one call left
InitAnswer ==
  /\ \E raw \in AnswerTexts :
       /\ state = ProcessedBatch(raw)
       /\ extracted = DictSet(<<>>, uuid4(1),
                              [raised |-> FALSE, text |-> raw, confidence |-> pdf_confidence(raw)])
  /\ pc = "idle"
  /\ idx = 0
  /\ calls = MaxCalls - 1
  /\ batches = 1
  /\ call = [kind |-> "process_documents", ready |-> FALSE]
  /\ is_valid = FALSE
  /\ fate = <<"admitted">>
  /\ next_id = 2
  /\ clock = 0
  /\ uploads = DictSet(<<>>, generate_safe_filename("a.pdf", 0), "a.pdf")
  /\ faults = {}
  /\ grounding = <<>>
  /\ scored_on = <<>>
  /\ qa_agent = NewAgent
  /\ retrieved = NoRetrieval
  /\ prepared = NoPreparation
  /\ again = NoSecond
  /\ probe = NoProbe
  /\ ui = NewInterface
  /\ handler = [t \in Threads |-> NotInvoked]

\* ask_question on that batch: the entry node hands it on, the answer node
\* answers
NextAnswer ==
  \/ AskQuestion
  \/ UploadBegin
  \/ AnswerQuestion

SpecAnswer == InitAnswer /\ [][NextAnswer]_vars

\* the ingestion nodes driven by process_documents, with the summarize node
\* also called directly between runs
NextDirect ==
  \/ ProcessDocuments
  \/ UploadBegin
  \/ UploadValidate
  \/ UploadSave
  \/ UploadEnd
  \/ OcrBegin
  \/ OcrFileStart
  \/ OcrFileExtract
  \/ OcrGate
  \/ GenerateSummary
  \/ SummarizeDirect

SpecDirect == Init /\ [][NextDirect]_vars

TypeOK ==
  /\ pc \in {"idle", "upload_files", "upload_validate", "upload_save", "upload_end",
             "process_ocr", "ocr_file_start", "ocr_file_extract", "ocr_gate",
             "generate_summary", "answer_question"}
  /\ state.overall_status \in {IDLE, UPLOADING, UPLOADED, PROCESSING, OCR_COMPLETE, SUMMARIZED, ERROR}
  /\ calls \in 0..MaxCalls
  /\ clock \in 0..MaxClock

\* ================================================================ claims
FileIds == DOMAIN state.files
Status(id) == state.files[id].processing_status
FailedIds == {id \in FileIds : Status(id) # OCR_COMPLETE}
\* positions of file_upload_order whose file is not OCR_COMPLETE
FailedPositions ==
  {p \in 1..Len(state.file_upload_order) : Status(state.file_upload_order[p]) # OCR_COMPLETE}
\* process_all_files_ocr has just returned, after a loop over a non-empty files
OcrReturned == pc = "generate_summary" /\ FileIds # {}
NamesInMessage == {state.error_message.names[k] : k \in 1..Len(state.error_message.names)}

\* C1 as stated: when the extraction loop has attempted every admitted file
\* and at least one did not reach ocr_complete, the returned batch is in error
\* and its message holds the name of every failed file and of no succeeded file.
C1_MessageNamesNoSucceededFile ==
  (OcrReturned /\ FailedIds # {}) =>
     /\ state.overall_status = ERROR
     /\ \A id \in FileIds :
          (id \in FailedIds) <=> (state.files[id].file_name \in NamesInMessage)

\* C1 amended: in that case the returned batch is in error and the message of
\* the OCR node lists one name per failed file record, in admission order: the
\* k-th name is the display name of the k-th failed file.  A succeeded file is
\* named only if a failed file has the same display name.
C1_MessageListsFailedRecords ==
  (OcrReturned /\ FailedIds # {}) =>
     /\ state.overall_status = ERROR
     /\ state.error_message.stage = "ocr"
     /\ Len(state.error_message.names) = Cardinality(FailedPositions)
     /\ \A p \in FailedPositions :
          state.error_message.names[Cardinality({r \in FailedPositions : r <= p})]
            = state.files[state.file_upload_order[p]].file_name
     /\ \A b \in FileIds \ FailedIds :
          state.files[b].file_name \in NamesInMessage
            => \E a \in FailedIds : state.files[a].file_name = state.files[b].file_name

\* C1 witness: the gate has failed with one file failed and a differently
\* named file succeeded
C1_Witness ==
  /\ OcrReturned
  /\ \E a \in FailedIds, b \in FileIds \ FailedIds :
       state.files[a].file_name # state.files[b].file_name

\* C2: in a process_documents run whose completion gate failed, the summary
\* node is not entered, and the run ends with the gate's message, which names
\* the failed files.
C2_GateFailureHaltsRun ==
  /\ (call.kind = "process_documents" /\ pc = "generate_summary")
        => state.overall_status # ERROR
  /\ (call.kind = "process_documents" /\ pc = "idle" /\ FailedIds # {})
        => /\ state.error_message.stage = "ocr"
           /\ NamesInMessage = {state.files[id].file_name : id \in FailedIds}

\* the adapter failed for the file: it raised, or its text is blank once trimmed
ExtractionFailed(o) == o.raised \/ Strip(o.text) = <<>>

\* C3: a file whose extraction raised or came back blank is in error with a
\* reason, every other attempted file whose own extraction succeeded is
\* ocr_complete, and when the loop is over every admitted file was attempted.
C3_FailureIsolated ==
  /\ \A id \in DOMAIN extracted :
       /\ id \in FileIds
       /\ IF ExtractionFailed(extracted[id])
          THEN Status(id) = ERROR /\ state.files[id].error_message # ""
          ELSE Status(id) = OCR_COMPLETE /\ state.files[id].error_message = ""
  /\ pc \in {"ocr_gate", "generate_summary"} => DOMAIN extracted = FileIds

\* C3 witness: the loop is over, an earlier file failed and a later one succeeded
C3_Witness ==
  /\ pc = "ocr_gate"
  /\ \E p, q \in 1..Len(state.file_upload_order) :
       /\ p < q
       /\ ExtractionFailed(extracted[state.file_upload_order[p]])
       /\ Status(state.file_upload_order[p]) = ERROR
       /\ ~ExtractionFailed(extracted[state.file_upload_order[q]])
       /\ Status(state.file_upload_order[q]) = OCR_COMPLETE

\* C4: combined_chunks and combined_text are non-empty only if every admitted
\* file is ocr_complete.
C4_CombinedOnlyWhenAllComplete ==
  (state.combined_chunks # <<>> \/ state.combined_text # <<>>)
     => \A id \in FileIds : Status(id) = OCR_COMPLETE

\* position of a file in file_upload_order
PositionOf(id) == CHOOSE p \in 1..Len(state.file_upload_order) : state.file_upload_order[p] = id

\* C5: when the extraction loop ends with every admitted file ocr_complete,
\* the returned batch is ocr_complete with overall progress 80, every entry of
\* combined_chunks carries the id and name of an admitted file and the content
\* of that file's chunk at its chunk_index, every chunk of every file occurs
\* exactly once, and the entries are grouped by file in admission order with
\* the chunks of a file in their order.
C5_CombinedChunksTagged ==
  (OcrReturned /\ FailedIds = {}) =>
     LET cc == state.combined_chunks IN
     /\ state.overall_status = OCR_COMPLETE
     /\ state.processing_progress[Overall] = 80
     /\ \A k \in 1..Len(cc) :
          /\ cc[k].file_id \in FileIds
          /\ cc[k].file_name = state.files[cc[k].file_id].file_name
          /\ cc[k].chunk_index \in 0..(Len(state.files[cc[k].file_id].document_chunks) - 1)
          /\ cc[k].content = state.files[cc[k].file_id].document_chunks[cc[k].chunk_index + 1]
     /\ \A id \in FileIds : \A i \in 1..Len(state.files[id].document_chunks) :
          Cardinality({k \in 1..Len(cc) : cc[k].file_id = id /\ cc[k].chunk_index = i - 1}) = 1
     /\ \A k, l \in 1..Len(cc) :
          k < l => \/ PositionOf(cc[k].file_id) < PositionOf(cc[l].file_id)
                   \/ (cc[k].file_id = cc[l].file_id /\ cc[k].chunk_index < cc[l].chunk_index)

\* C5 witness: the gate passed for two files that have three chunks or more
C5_Witness ==
  /\ OcrReturned
  /\ state.overall_status = OCR_COMPLETE
  /\ Cardinality(FileIds) = 2
  /\ Len(state.combined_chunks) >= 3

\* upload_multiple_files has returned from a run of its loop
UploadReturned ==
  /\ Len(fate) = Len(state.uploaded_file_paths)
  /\ pc = "process_ocr" \/ (pc = "idle" /\ state.current_step = "upload")
\* positions of the submitted sequence whose file was admitted
AdmittedPositions == {i \in 1..Len(fate) : fate[i] = "admitted"}

\* C6: when submit admits at least one file, the returned batch is uploaded
\* with overall progress 20 and nothing else in the progress mapping, holds
\* one record with status uploaded per admitted file under its own identifier,
\* and upload_order lists exactly these identifiers, each once, in the order
\* in which the files were submitted.
C6_SubmitRecordsAdmittedFiles ==
  (UploadReturned /\ AdmittedPositions # {}) =>
     LET order == state.file_upload_order IN
     /\ state.overall_status = UPLOADED
     /\ DOMAIN state.processing_progress = {Overall}
     /\ state.processing_progress[Overall] = 20
     /\ Len(order) = Cardinality(AdmittedPositions)
     /\ Cardinality(FileIds) = Cardinality(AdmittedPositions)
     /\ FileIds = {order[p] : p \in 1..Len(order)}
     /\ \A id \in FileIds : state.files[id].file_id = id /\ Status(id) = UPLOADED
     /\ \A i \in AdmittedPositions :
          state.files[order[Cardinality({j \in AdmittedPositions : j <= i})]].file_name
            = state.uploaded_file_paths[i].name

\* C6 witness: submit has returned with two files admitted
C6_Witness == UploadReturned /\ Cardinality(AdmittedPositions) = 2

\* C7: submit ends in error exactly when no file was admitted; with at least
\* one file admitted the batch is uploaded and holds exactly the admitted
\* files, the rejected and the uncopied ones being absent.
C7_SubmitFailsOnlyWithoutFiles ==
  UploadReturned =>
     /\ state.overall_status = ERROR <=> AdmittedPositions = {}
     /\ state.overall_status = ERROR => state.error_message.stage = "upload"
     /\ AdmittedPositions # {} =>
          /\ state.overall_status = UPLOADED
          /\ Cardinality(FileIds) = Cardinality(AdmittedPositions)

\* C7 witness: submit has returned an uploaded batch although one of the
\* submitted files was rejected or could not be copied
C7_Witness ==
  /\ UploadReturned
  /\ state.overall_status = UPLOADED
  /\ \E i \in 1..Len(fate) : fate[i] # "admitted"

\* C8: save_uploaded_file is entered only for a file that validate_file
\* accepted; a step that writes to the upload directory or adds a FileInfo is
\* the save step of an accepted file, and a rejected file is skipped with
\* neither.
C8_ValidationBeforeStorage ==
  [][ /\ (pc' = "upload_save" => is_valid')
      /\ (uploads' # uploads \/ ~(DOMAIN state'.files \subseteq DOMAIN state.files))
            => (pc = "upload_save" /\ is_valid)
      /\ (pc = "upload_validate" /\ ~is_valid')
            => (uploads' = uploads /\ state' = state /\ fate' = Append(fate, "rejected"))
    ]_vars

\* C8 witness: the first file was rejected, nothing was stored for it, and
\* the second was validated, stored and admitted
C8_Witness ==
  /\ pc = "upload_end"
  /\ fate = <<"rejected", "admitted">>
  /\ Cardinality(DOMAIN uploads) = 1
  /\ Cardinality(FileIds) = 1

IngestionSteps ==
  {"upload_validate", "upload_save", "upload_end", "process_ocr",
   "ocr_file_start", "ocr_file_extract", "ocr_gate", "generate_summary"}

\* C9: an ask on a batch that is not summarized executes no ingestion stage,
\* leaves files, overall_status, progress and chat_history as they were, and
\* returns with the not-ready response.
C9_AskBeforeReadyChangesNothing ==
  [][ (call'.kind = "ask_question" /\ ~call'.ready) =>
        /\ pc' \notin IngestionSteps
        /\ state'.files = state.files
        /\ state'.overall_status = state.overall_status
        /\ state'.processing_progress = state.processing_progress
        /\ state'.chat_history = state.chat_history
        /\ (pc' = "idle" => state'.response = NotReadyResponse)
    ]_vars

\* C10: an ask on a summarized batch goes from the entry node straight to the
\* QA node, and none of its steps changes the files, the combined chunks and
\* text, the summary, the progress, the status or any other part of the batch
\* except the question, the response, the relevant chunks and the chat
\* history, which either stays or grows at its end; nothing is stored.
C10_AskWhenReadyOnlyAppendsChat ==
  [][ (call'.kind = "ask_question" /\ call'.ready) =>
        /\ pc' \in {"upload_files", "answer_question", "idle"}
        /\ [state' EXCEPT !.current_query = "", !.response = "",
                          !.relevant_chunks = <<>>, !.chat_history = <<>>]
             = [state EXCEPT !.current_query = "", !.response = "",
                             !.relevant_chunks = <<>>, !.chat_history = <<>>]
        /\ state'.overall_status = SUMMARIZED
        /\ Len(state'.chat_history) >= Len(state.chat_history)
        /\ SubSeq(state'.chat_history, 1, Len(state.chat_history)) = state.chat_history
        /\ uploads' = uploads
        /\ next_id' = next_id
    ]_vars

\* C10 witness: two asks in a row on a summarized batch have both been answered
C10_Witness ==
  /\ pc = "idle"
  /\ calls = 3
  /\ call.kind = "ask_question"
  /\ call.ready
  /\ Len(state.chat_history) = 4

\* the QA node is about to serve a question on a summarized batch
AnsweringQuestion ==
  /\ pc = "answer_question"
  /\ state.overall_status = SUMMARIZED
  /\ state.current_query # ""

\* C11: every run of the QA node on a summarized batch with a question,
\* whether it succeeds or fails, appends to chat_history the user entry with
\* the question and then the assistant entry with the response it returns.
C11_AskAppendsQuestionAndAnswer ==
  [][ AnsweringQuestion =>
        state'.chat_history =
          state.chat_history \o
            <<[role |-> "user", content |-> state.current_query],
              [role |-> "assistant", content |-> state'.response]>>
    ]_vars

Apologies == {AgentApology, NodeApology}

\* C12 as stated: whenever a call of the QA node raises, retrieval included,
\* the response is an apology, the node returns, and overall_status, files
\* and combined_chunks are as before.
C12_AnyFaultYieldsApology ==
  [][ (AnsweringQuestion /\ faults' # {}) =>
        /\ pc' = "idle"
        /\ state'.response \in Apologies
        /\ state'.overall_status = state.overall_status
        /\ state'.files = state.files
        /\ state'.combined_chunks = state.combined_chunks
    ]_vars

\* C12: the QA node always returns and leaves overall_status, files and
\* combined_chunks as they were; a failed init_chat_model or llm.invoke makes
\* the response an apology, while a failed fit_transform or transform alone
\* only empties the relevant chunks and the model's answer is the response.
C12_ModelFaultYieldsApology ==
  [][ AnsweringQuestion =>
        /\ pc' = "idle"
        /\ state'.overall_status = state.overall_status
        /\ state'.files = state.files
        /\ state'.combined_chunks = state.combined_chunks
        /\ ("init_chat_model" \in faults' => state'.response = NodeApology)
        /\ ("llm.invoke" \in faults' => state'.response = AgentApology)
        /\ (faults' \cap {"init_chat_model", "llm.invoke"} = {}
              => state'.response \notin Apologies)
        /\ (faults' \cap {"fit_transform", "transform"} # {}
              => state'.relevant_chunks = <<>>)
    ]_vars

\* C12 witness: an ask whose index could not be built and whose model call
\* raised has returned with the apology
C12_Witness ==
  /\ pc = "idle"
  /\ faults = {"fit_transform", "llm.invoke"}
  /\ state.response = AgentApology
  /\ state.overall_status = SUMMARIZED

ErrorSummary == "Error generating summary"

\* C13: overall_status becomes SUMMARIZED only by the summarize node run on
\* an OCR_COMPLETE batch; run on such a batch it ends in SUMMARIZED with
\* overall progress 100 unless it fails; and whenever the batch is
\* SUMMARIZED every admitted file is OCR_COMPLETE and overall progress is 100.
C13_SummarizedOnlyAfterAllExtracted ==
  [][ /\ (state'.overall_status = SUMMARIZED /\ state.overall_status # SUMMARIZED)
           => (pc = "generate_summary" /\ state.overall_status = OCR_COMPLETE)
      /\ (pc = "generate_summary" /\ state.overall_status = OCR_COMPLETE)
           => state'.overall_status \in {SUMMARIZED, ERROR}
      /\ state'.overall_status = SUMMARIZED
           => /\ \A id \in DOMAIN state'.files :
                   state'.files[id].processing_status = OCR_COMPLETE
              /\ DOMAIN state'.files # {}
              /\ Overall \in DOMAIN state'.processing_progress
              /\ state'.processing_progress[Overall] = 100
    ]_vars

\* C13 witness: a batch of two files has been summarized
C13_Witness ==
  /\ pc = "idle"
  /\ state.overall_status = SUMMARIZED
  /\ Cardinality(FileIds) = 2
  /\ state.processing_progress[Overall] = 100

\* C14: when summarize fails, a failed model call for the collection summary
\* or for the suggested questions included, the batch ends in ERROR.
C14_SummarizeFailureEndsInError ==
  [][ ( /\ pc = "generate_summary"
        /\ state.overall_status = OCR_COMPLETE
        /\ \/ state'.combined_summary = ErrorSummary
           \/ state'.suggested_questions = "default" )
        => state'.overall_status = ERROR
    ]_vars

\* C15: summarize called on a batch, after its processing run, that is not
\* OCR_COMPLETE returns without changing overall_status.
C15_SummarizeNotReadyKeepsStatus ==
  [][ ( /\ pc = "idle"
        /\ call'.kind = "summarize"
        /\ calls' = calls + 1
        /\ batches >= 1
        /\ state.overall_status # OCR_COMPLETE )
        => state'.overall_status = state.overall_status
    ]_vars

\* C16: in a process_documents run the overall progress, once set, stays in
\* 0..100 and never decreases from one step to the next; it is 20 when the
\* upload returns, 20 + floor(60 * k / n) after the k-th of n admitted files
\* has been attempted, 80 when the completion gate passes and 100 when the
\* summary is done.
C16_ProgressMonotone ==
  [][ (call'.kind = "process_documents" /\ Overall \in DOMAIN state'.processing_progress) =>
        LET before == state.processing_progress
            after == state'.processing_progress[Overall]
            n == Cardinality(FileIds)
        IN /\ after \in 0..100
           /\ Overall \in DOMAIN before => after >= before[Overall]
           /\ pc = "upload_end" => after = 20
           /\ pc = "ocr_file_extract" => after = 20 + (60 * idx) \div n
           /\ (pc = "ocr_gate" /\ state'.overall_status = OCR_COMPLETE) => after = 80
           /\ (pc = "generate_summary" /\ state'.overall_status = SUMMARIZED) => after = 100
    ]_vars

\* C16 witness: the first of two admitted files has been attempted and the
\* overall progress stands at 50
C16_Witness ==
  /\ call.kind = "process_documents"
  /\ pc = "ocr_file_start"
  /\ idx = 2
  /\ Cardinality(FileIds) = 2
  /\ state.processing_progress[Overall] = 50

\* position of a status on the path idle, uploading, uploaded, processing,
\* ocr_complete, summarized, with error last
Rank(status) ==
  CASE status = IDLE -> 0
    [] status = UPLOADING -> 1
    [] status = UPLOADED -> 2
    [] status = PROCESSING -> 3
    [] status = OCR_COMPLETE -> 4
    [] status = SUMMARIZED -> 5
    [] status = ERROR -> 6

\* C17: on one batch state, through any orchestrator calls, overall_status
\* never goes back to an earlier stage, and a batch in error stays in error.
C17_StatusOnlyMovesForward ==
  [][ batches' = batches =>
        Rank(state'.overall_status) >= Rank(state.overall_status)
    ]_vars

\* the index of qa_agent is built
IndexBuilt == qa_agent.chunks_with_metadata # <<>> /\ qa_agent.chunk_vectors

\* C18: a query with top_k >= 1 on a built index returns at most top_k
\* entries, each a chunk of the index with its own similarity, every
\* similarity strictly above the minimum, in non-increasing order.
C18_AtMostTopKAboveThresholdDescending ==
  (retrieved.asked /\ IndexBuilt) =>
    LET r == retrieved.outcome.value
    IN /\ Len(r) <= retrieved.top_k
       /\ \A n \in 1..Len(r) :
            /\ r[n].position \in 1..Len(qa_agent.chunks_with_metadata)
            /\ r[n].chunk = qa_agent.chunks_with_metadata[r[n].position]
            /\ r[n].similarity_score = retrieved.sim[r[n].position]
            /\ r[n].similarity_score > MinSimilarity
       /\ \A n \in 1..(Len(r) - 1) : r[n].similarity_score >= r[n + 1].similarity_score
       /\ \A n, m \in 1..Len(r) : n # m => r[n].position # r[m].position

\* C18 witness: a query with top_k = 2 on an index of three chunks returned
\* two entries of different similarity while a third chunk was at the minimum
C18_Witness ==
  /\ retrieved.asked
  /\ IndexBuilt
  /\ Len(qa_agent.chunks_with_metadata) = 3
  /\ retrieved.top_k = 2
  /\ Len(retrieved.outcome.value) = 2
  /\ retrieved.outcome.value[1].similarity_score > retrieved.outcome.value[2].similarity_score
  /\ \E i \in 1..3 : retrieved.sim[i] = MinSimilarity

\* C19: a query returns normally, and with the empty sequence when the index
\* is not built, when scoring fails, or when no chunk is above the minimum.
C19_NothingRelevantIsEmptyNotError ==
  retrieved.asked =>
    /\ ~retrieved.outcome.raised
    /\ ( \/ ~IndexBuilt
         \/ ~retrieved.scoring_ok
         \/ \A i \in DOMAIN retrieved.sim : retrieved.sim[i] <= MinSimilarity )
         => retrieved.outcome.value = <<>>

\* C19 witness: scoring failed on a built index whose chunks the query would
\* have matched, and the query returned the empty sequence
C19_Witness ==
  /\ retrieved.asked
  /\ IndexBuilt
  /\ ~retrieved.scoring_ok
  /\ \E i \in DOMAIN retrieved.sim : retrieved.sim[i] > MinSimilarity
  /\ retrieved.outcome = [raised |-> FALSE, value |-> <<>>]

\* C20: returned chunks of equal similarity are in corpus order, and a chunk
\* is never returned while an earlier chunk of the same similarity is left
\* out.
C20_TiesInCorpusOrder ==
  (retrieved.asked /\ IndexBuilt) =>
    LET r == retrieved.outcome.value
    IN /\ \A n \in 1..(Len(r) - 1) :
            r[n].similarity_score = r[n + 1].similarity_score
              => r[n].position < r[n + 1].position
       /\ \A n \in 1..Len(r), j \in DOMAIN retrieved.sim :
            (retrieved.sim[j] = r[n].similarity_score /\ j < r[n].position)
              => \E m \in 1..Len(r) : r[m].position = j

\* C21 as stated: a prepare_multi_file_index call that was given no chunks
\* raised an error to its caller.
C21_EmptyCorpusIsReported ==
  (prepared.called /\ prepared.combined_chunks = <<>>) => prepared.raised

\* both agents have an index and both retrievals scored the query
BothRetrieved ==
  /\ again.asked
  /\ prepared.combined_chunks # <<>>
  /\ prepared.fit_ok /\ again.fit_ok
  /\ retrieved.scoring_ok /\ again.scoring_ok

OverlapWith(previous, chunk, chunk_overlap) ==
  LET fits(j) == /\ j <= Len(previous) /\ j <= Len(chunk)
                 /\ SubSeq(previous, Len(previous) - j + 1, Len(previous)) = SubSeq(chunk, 1, j)
  IN CHOOSE j \in 0..chunk_overlap : fits(j) /\ \A k \in (j + 1)..chunk_overlap : ~fits(k)

RECURSIVE Rejoined(_, _)
\* the chunks put together again, each after the first without its overlap
\* with the chunk before it
Rejoined(chunks, chunk_overlap) ==
  IF chunks = <<>> THEN <<>>
  ELSE IF Len(chunks) = 1 THEN chunks[1]
  ELSE LET n == Len(chunks)
           last == chunks[n]
           drop == OverlapWith(chunks[n - 1], last, chunk_overlap)
       IN Rejoined(SubSeq(chunks, 1, n - 1), chunk_overlap) \o SubSeq(last, drop + 1, Len(last))

\* C23 as stated: for a text clean_text returned and a chunk_overlap below
\* the chunk_size, the chunks create_chunks returned, re-joined without
\* their overlaps, are the text.
C23_RejoinedChunksAreTheText ==
  probe.fn = "create_chunks" =>
    Rejoined(probe.chunks, probe.chunk_overlap) = probe.text

\* C24: clean_text applied to its own result returns that result, and the
\* result neither begins nor ends with whitespace nor holds two whitespace
\* characters in a row.
C24_CleanTextIdempotent ==
  probe.fn = "clean_text" =>
    /\ probe.twice = probe.once
    /\ probe.once # <<>> => ~IsSpace(probe.once[1]) /\ ~IsSpace(probe.once[Len(probe.once)])
    /\ \A i \in 1..(Len(probe.once) - 1) : ~(IsSpace(probe.once[i]) /\ IsSpace(probe.once[i + 1]))

\* C24 witness: a text with a removed character next to a blank, between
\* two words, which clean_text changed into the two words one blank apart
C24_Witness ==
  /\ probe.fn = "clean_text"
  /\ \E i \in 1..(Len(probe.text) - 1) : probe.text[i] = " " /\ probe.text[i + 1] = "#"
  /\ Len(probe.once) = 3 /\ probe.once[2] = " "

\* C25: validate_file returns ok exactly when the path exists, the size is
\* at most max_size and the lower-cased extension is allowed; otherwise it
\* returns not-ok with the reason of the first check that fails, in the
\* order existence, size, extension; and the call changes neither the batch
\* nor the upload directory.
C25_ValidateFile ==
  [][ (probe.fn = "none" /\ probe'.fn = "validate_file") =>
        LET p == probe'
            found == p.exists
            fits == p.size <= p.max_size
            supported == Suffix(p.path) \in p.allowed
        IN /\ p.result[1] <=> (found /\ fits /\ supported)
           /\ p.result[1] => p.result[2] = ""
           /\ ~found => p.result[2] = "File does not exist"
           /\ (found /\ ~fits) => p.result[2] = "File size exceeds maximum allowed size"
           /\ (found /\ fits /\ ~supported) => p.result[2] = "File type not supported"
           /\ UNCHANGED <<state, uploads>> ]_vars

\* C25 witness: an existing file of exactly max_size bytes whose extension,
\* written in capitals, is allowed once lower-cased, was accepted
C25_Witness ==
  /\ probe.fn = "validate_file"
  /\ probe.exists /\ probe.size = probe.max_size
  /\ probe.path = "A.PDF" /\ ".pdf" \in probe.allowed
  /\ probe.result[1]

\* length of the entry of a chunk in the context
PartLength(chunk) == Len(source_info(chunk.file_name)) + 1 + Len(chunk.content)

RECURSIVE PartOffset(_, _)
\* characters of the joined context before the entry of the k-th chunk
PartOffset(chunks, k) ==
  IF k = 1 THEN 0 ELSE PartOffset(chunks, k - 1) + PartLength(chunks[k - 1]) + 2

\* text is the entries of the chunks, in order, two newlines between them
IsConcatenationOf(text, chunks) ==
  /\ Len(text) = PartOffset(chunks, Len(chunks)) + PartLength(chunks[Len(chunks)])
  /\ \A k \in 1..Len(chunks) :
       LET from == PartOffset(chunks, k)
       IN /\ SubSeq(text, from + 1, from + PartLength(chunks[k]))
               = source_info(chunks[k].file_name) \o <<"\n">> \o chunks[k].content
          /\ k > 1 => SubSeq(text, from - 1, from) = <<"\n", "\n">>

\* C30: with at least one chunk retrieved, the context is the concatenation
\* of the chunks, each under the name of its file, when that is at most
\* max_context_length characters long, and otherwise its first
\* max_context_length characters followed by the truncation marker; it is
\* never longer than max_context_length plus the marker.
C30_ContextCappedWithMarker ==
  (probe.fn = "relevant_context" /\ probe.relevant_chunks # <<>>) =>
    LET chunks == probe.relevant_chunks
        whole == PartOffset(chunks, Len(chunks)) + PartLength(chunks[Len(chunks)])
        context == probe.context
    IN /\ Len(context) <= max_context_length + Len(TruncationMarker)
       /\ whole <= max_context_length => IsConcatenationOf(context, chunks)
       /\ whole > max_context_length =>
            /\ Len(context) = max_context_length + Len(TruncationMarker)
            /\ SubSeq(context, max_context_length + 1, Len(context)) = TruncationMarker
            /\ \E full \in {JoinParts([i \in 1..Len(chunks) |-> context_part(chunks[i])])} :
                 /\ IsConcatenationOf(full, chunks)
                 /\ SubSeq(context, 1, max_context_length) = SubSeq(full, 1, max_context_length)

\* C30 witness: a context of exactly max_context_length characters, made of
\* three chunks of two files, went into the prompt
C30_Witness ==
  /\ probe.fn = "relevant_context"
  /\ Len(probe.relevant_chunks) = 3
  /\ probe.relevant_chunks[1].file_name # probe.relevant_chunks[2].file_name
  /\ Len(probe.context) = max_context_length
C27_AdmittedFilesHaveDistinctPaths ==
  \A a \in FileIds, b \in FileIds :
    a # b => state.files[a].file_path # state.files[b].file_path

\* C28 as stated: the snapshot says ready_for_qa exactly when the batch is
\* summarized, and its status, progress and error are those of the batch.
C28_SnapshotReadyWhenSummarized ==
  LET snapshot == get_processing_status(state)
  IN /\ snapshot.ready_for_qa <=> (state.overall_status = SUMMARIZED)
     /\ snapshot.status = state.overall_status
     /\ snapshot.progress = state.processing_progress
     /\ snapshot.error = state.error_message

\* C29 as stated: when an answer was composed from retrieved chunks, the
\* relevant_chunks of the returned state are those chunks, in that order.
C29_GroundingChunksAreThoseUsed ==
  (pc = "idle" /\ call.kind = "ask_question" /\ call.ready /\ "init_chat_model" \notin faults)
    => state.relevant_chunks = grounding
\* a process_documents call has returned a summarized batch of the single
\* file a.pdf, admitted in second 0, with both model calls answered
OneFileRunReturned ==
  /\ pc = "idle" /\ calls = 1 /\ clock = 0
  /\ state.overall_status = SUMMARIZED
  /\ Len(state.uploaded_file_paths) = 1
  /\ state.uploaded_file_paths[1] = [path |-> "a.pdf", name |-> "a.pdf"]
  /\ state.combined_summary = "summary" /\ state.suggested_questions = "parsed"

\* the batch a run of the graph returns is the batch ProcessedBatch gives
\* for the text that was extracted
ProcessedBatchIsTheRun ==
  OneFileRunReturned => state = ProcessedBatch(extracted[uuid4(1)].text)
\* ask_question has returned an answer for which the retrieval on the
\* indexed chunks of the batch found nothing, and no call raised
AnsweredWithoutContext ==
  /\ pc = "idle"
  /\ call.kind = "ask_question" /\ call.ready
  /\ state.current_query # ""
  /\ state.combined_chunks # <<>>
  /\ faults = {}
  /\ grounding = <<>>

FileRank(status) ==
  CASE status = UPLOADED -> 0
    [] status = PROCESSING -> 1
    [] status = OCR_COMPLETE -> 2
    [] status = ERROR -> 2

\* C32 as stated: on one batch, no step takes the status of a file record
\* back, and a record that is ocr_complete or in error is left as it is by
\* every later step, the steps of a later ask_question included.
C32_FileRecordsSettle ==
  [][ batches' = batches =>
        \A id \in FileIds :
          /\ id \in DOMAIN state'.files
          /\ FileRank(state'.files[id].processing_status) >= FileRank(Status(id))
          /\ Status(id) \in {OCR_COMPLETE, ERROR} => state'.files[id] = state.files[id]
    ]_vars

\* the same for the steps of process_documents and of an ask_question on a
\* summarized batch
FileRecordsSettleInOrderlyRuns ==
  [][ (batches' = batches /\ (call'.kind = "process_documents" \/ call'.ready)) =>
        \A id \in FileIds :
          /\ id \in DOMAIN state'.files
          /\ FileRank(state'.files[id].processing_status) >= FileRank(Status(id))
          /\ Status(id) \in {OCR_COMPLETE, ERROR} => state'.files[id] = state.files[id]
    ]_vars
\* the files process_single_file is working on
BeingProcessed == {id \in FileIds : Status(id) = PROCESSING}

C34_ScoredOnCurrentChunks ==
  scored_on # <<>> => scored_on = state.combined_chunks

\* C34 witness: a question was scored on the index of a batch of four
\* chunks from two files
C34_Witness ==
  /\ Len(scored_on) = 4
  /\ scored_on[1].file_id # scored_on[4].file_id
\* the loop of process_all_files_ocr has dealt with every admitted file
AllFilesAttempted == FileIds # {} /\ DOMAIN extracted = FileIds

\* C35: once the extraction loop has attempted the admitted files, every
\* admitted file has an entry in processing_progress, which is 100 when the
\* file is ocr_complete and 0 when it is not; and an entry of a file is
\* never anything but 0 or 100.
C35_PerFileProgress ==
  /\ AllFilesAttempted =>
       \A id \in FileIds :
         /\ id \in DOMAIN state.processing_progress
         /\ state.processing_progress[id] = (IF Status(id) = OCR_COMPLETE THEN 100 ELSE 0)
  /\ \A key \in DOMAIN state.processing_progress \ {Overall} :
       state.processing_progress[key] \in {0, 100}

\* C35 witness: two files were attempted, the entry of the one is 100 and
\* that of the other 0
C35_Witness ==
  /\ AllFilesAttempted
  /\ \E a \in FileIds, b \in FileIds :
       /\ a \in DOMAIN state.processing_progress /\ state.processing_progress[a] = 100
       /\ b \in DOMAIN state.processing_progress /\ state.processing_progress[b] = 0
\* app.invoke is running the graph for process_documents
ProcessRunning == call.kind = "process_documents" /\ pc # "idle"
\* process_documents has returned
ProcessReturned == call.kind = "process_documents" /\ pc = "idle"

\* C36: a process_documents call that is running returns, and the state it
\* returns is SUMMARIZED or ERROR, so that upload_and_process_files reports
\* success or an error and never an unclear status.
C36_ProcessDocumentsReturnsSettled ==
  /\ [](ProcessRunning => <>ProcessReturned)
  /\ [](ProcessReturned =>
          /\ state.overall_status \in {SUMMARIZED, ERROR}
          /\ upload_report(state) # "Processing completed but status unclear.")

\* C36 witness: process_documents has returned a batch in error whose
\* summarize node found the model not available
C36_Witness ==
  /\ ProcessReturned
  /\ state.overall_status = ERROR
  /\ state.error_message = Message("summarize", "init_chat_model raised", <<>>)
\* threads whose invocation is inside process_documents
InsideRun == {t \in Threads : handler[t].at = "run"}

\* C37: at most one invocation of upload_and_process_files of an interface
\* is inside process_documents at a time, and once every invocation has
\* returned the processing flag is false.
C37_OneRunAtATime ==
  /\ Cardinality(InsideRun) <= 1
  /\ (\A t \in Threads : handler[t].at = "idle") => ~ui.processing
\* C38: every file admitted by the upload node has a file_type among pdf,
\* image and docx, so that extract_text is never asked for an unsupported
\* type.
C38_AdmittedFilesHaveSupportedType ==
  \A id \in DOMAIN state.files :
    state.files[id].file_type \in {"pdf", "image", "docx"}
\* the statistics recorded for a file say one paragraph and a reading time
\* of max(1, word_count // 200)
OneParagraphStats(f) ==
  /\ f.document_metadata # <<>>
  /\ f.document_metadata.paragraph_count = 1
  /\ f.document_metadata.estimated_reading_time =
       (IF f.document_metadata.word_count \div 200 > 1
        THEN f.document_metadata.word_count \div 200 ELSE 1)

\* C39: every file that is ocr_complete has statistics with paragraph_count
\* 1 and estimated_reading_time max(1, word_count // 200), whatever the
\* lines of its raw text.
C39_StatsOfCleanedText ==
  \A id \in FileIds : Status(id) = OCR_COMPLETE => OneParagraphStats(state.files[id])

\* the same for the files whose cleaned text is not empty
StatsOfNonEmptyCleanedText ==
  \A id \in FileIds :
    (Status(id) = OCR_COMPLETE /\ state.files[id].processed_text # <<>>) =>
      OneParagraphStats(state.files[id])
====
